---------------------------- MODULE Spec2Model ----------------------------
(***************************************************************************)
(* The idempotent intake / delivery subsystem of universal_table_engine:   *)
(* webhook_intake, its background job, replay_delivery, the admin reads    *)
(* and the WebhookStore they share (app.py, webhook_store.py).             *)
(*                                                                         *)
(* Scheduling.  webhook_intake, replay_delivery and _process_async_intake  *)
(* are coroutines of one asyncio event loop.  A coroutine gives up the     *)
(* loop only where it awaits something that suspends: request.body(),      *)
(* request.form(), upload.read() and the download in webhook_intake, all   *)
(* before the idempotency lookup.  _run_parse_from_bytes holds no await,   *)
(* so from the lookup to the return the handler is one step, and so is     *)
(* the background job.  A request is therefore two steps: Authorize        *)
(* (app.py 195-208) and Handle (app.py 210-380).                           *)
(*                                                                         *)
(* The normalization pipeline behind _run_parse_from_bytes is a function   *)
(* of the bytes and the options, so a file has one status; a call returns  *)
(* it or raises.  Where the code of _run_parse_from_bytes itself decides   *)
(* (unsupported file, header_row override) the call raises; elsewhere the  *)
(* model draws, per call, whether it raises.  In this revision the call    *)
(* at app.py 678-687 passes dayfirst= and decimal_style= to                *)
(* normalize_table, whose signature (ingest/normalize.py 29-37) has        *)
(* neither, so the raise is the outcome the code as it stands takes; the   *)
(* return is kept as the outcome of the pipeline once it accepts them.     *)
(*                                                                         *)
(* lastResponse is the response of the latest step; a step that answers    *)
(* nobody (a background job, a request suspended in an await) leaves       *)
(* NoResp there.                                                           *)
(***************************************************************************)
EXTENDS Integers, Sequences, FiniteSets, TLC

\* ------------------------------------------------------------- bounds
MaxRequests == 2
MaxReplays == 1

\* ---------------------------------------------------- program constants
\* settings.py: webhook_clock_skew_seconds, webhook_max_upload_size_mb,
\* max_upload_size_mb; app.py: bytes per megabyte
ClockSkewSeconds == 300
WebhookMaxUploadMb == 100
MaxUploadMb == 100
BytesPerMb == 1048576

\* ------------------------------------------------------------ vocabulary
NoClient == "none"
NoKey == "nokey"
NoPreset == "nopreset"
DefaultClient == "default"
PathClients == {NoClient, "c1"}
StoreClients == {DefaultClient, "c1", "c2"}
Rids == 1..MaxRequests
\* uuid.uuid4().hex: every call returns an id never returned before
MaxIds == MaxRequests + MaxReplays
Ids == 1..MaxIds

TerminalStatuses == {"ok", "parsed_with_low_confidence", "needs_rulefile", "failed"}

\* ------------------------------------------------------------------ state
VARIABLES
    config,        \* AppSettings: webhook_require_auth, webhook_allowed_ips, webhook_async_default
    pc,            \* per request: "new", "authorized" (suspended in an await), "done"
    reqPath,       \* per request: the client_id and preset_id of the URL path
    lastResponse,  \* the response the latest step returned, NoResp when it returned none
    nextId,        \* the next fresh intake id
    clock,         \* datetime.utcnow(), as a logical clock
    sources,       \* intake id -> the source artifact stored for it
    receipts,      \* intake id -> the content of its receipt.json
    index,         \* client -> the entries of receipts/index.ndjson, in file order
    cache,         \* WebhookStore._idempotency_cache: <<client, key>> -> intake id (its receipt path)
    jobs,          \* background tasks added and not yet run
    parseRuns,     \* calls of _run_parse_from_bytes so far
    exports,       \* export adapter writes so far
    replays,       \* replay requests so far
    authIn,        \* the request _authorize_webhook is applied to on its own
    authOut,       \* what it answered
    fnIn,          \* the arguments of a function of the pipeline applied on its own
    fnOut,         \* what it returned
    threads,       \* per thread: where it stands inside a WebhookStore call, and its locals
    lock           \* WebhookStore._lock: the thread that holds it, 0 when free

vars == <<config, pc, reqPath, lastResponse, nextId, clock, sources, receipts,
          index, cache, jobs, parseRuns, exports, replays, authIn, authOut, fnIn, fnOut, threads, lock>>

\* ------------------------------------------------------- configuration
\* settings.webhook_api_keys.values() and settings.webhook_hmac_secrets
ApiKeys == {"key1"}
HmacSecretClients == {"c1", DefaultClient}
HmacSecretOf(client) == IF client = "c1" THEN "s1" ELSE "sd"
\* presets_dir holds one preset file: c1__p1.json
PresetFiles == {<<"c1", "p1">>}

AllConfigs ==
    [require_auth : BOOLEAN, allowed_ips : {{}, {"ip1"}}, async_default : BOOLEAN]
\* the settings the service is run with
Configs ==
    {[require_auth |-> TRUE, allowed_ips |-> {"ip1"}, async_default |-> FALSE],
     [require_auth |-> FALSE, allowed_ips |-> {}, async_default |-> TRUE]}

\* ------------------------------------------------------------ responses
\* kind: the endpoint that answered; ids: the summaries of a listing
NoResp == [kind |-> "-", code |-> 0, error |-> "-", ids |-> <<>>, receipt |-> {}]
ErrorResp(kind, code, error) == [NoResp EXCEPT !.kind = kind, !.code = code, !.error = error]
ReceiptResp(kind, r) == [NoResp EXCEPT !.kind = kind, !.code = 200, !.receipt = {r}]
ListResp(ids) == [NoResp EXCEPT !.kind = "list", !.code = 200, !.ids = ids]

\* --------------------------------------------------------- authorization
\* X-UTE-Signature, X-UTE-Timestamp and Authorization as the request carries
\* them.  An HMAC digest is the pair it is computed from; the body signed is
\* this request's ("body") or another one ("other").
NoSig == [kind |-> "none", secret |-> "-", body |-> "-"]
BadFormatSig == [kind |-> "plain", secret |-> "-", body |-> "-"]
Sha256Sig(secret, body) == [kind |-> "sha256", secret |-> secret, body |-> body]
NoTs == [kind |-> "none", offset |-> 0]
NanTs == [kind |-> "nan", offset |-> 0]
IntTs(offset) == [kind |-> "int", offset |-> offset]

HmacHeaders ==
    {<<NoSig, NoTs>>, <<NoSig, IntTs(0)>>, <<Sha256Sig("s1", "body"), NoTs>>,
     <<BadFormatSig, IntTs(0)>>, <<Sha256Sig("s1", "body"), NanTs>>,
     <<Sha256Sig("s1", "other"), IntTs(0)>>}
    \cup {<<Sha256Sig(s, "body"), IntTs(o)>> :
            s \in {"s1", "sd"},
            o \in {0, ClockSkewSeconds, ClockSkewSeconds + 1, 0 - ClockSkewSeconds - 1}}
Bearers == {"none", "key1", "bogus"}
Ips == {"ip1", "ip2"}
\* the URL paths requests are sent to: /intake, /intake/c1/p1, /intake/c1/p2
Paths ==
    {[client |-> NoClient, preset |-> NoPreset], [client |-> "c1", preset |-> "p1"],
     [client |-> "c1", preset |-> "p2"]}
Credential(ip, bearer, sig, ts) == [ip |-> ip, bearer |-> bearer, sig |-> sig, ts |-> ts]
\* every request _authorize_webhook is applied to on its own
AuthInputs ==
    {[ip |-> ip, bearer |-> b, sig |-> hm[1], ts |-> hm[2], client |-> c] :
        ip \in Ips, b \in Bearers, hm \in HmacHeaders, c \in PathClients}
\* what the requests of the intake runs carry: one credential per way through
\* _verify_ip_allowlist and _authorize_webhook
Credentials ==
    {Credential("ip1", "key1", NoSig, NoTs),
     Credential("ip2", "key1", NoSig, NoTs),
     Credential("ip1", "none", NoSig, NoTs),
     Credential("ip2", "bogus", NoSig, IntTs(0)),
     Credential("ip1", "none", Sha256Sig("s1", "body"), IntTs(ClockSkewSeconds)),
     Credential("ip1", "none", Sha256Sig("sd", "body"), IntTs(0)),
     Credential("ip1", "key1", Sha256Sig("s1", "other"), IntTs(0)),
     Credential("ip1", "none", BadFormatSig, IntTs(0)),
     Credential("ip1", "none", Sha256Sig("s1", "body"), NanTs),
     Credential("ip1", "none", Sha256Sig("s1", "body"), IntTs(ClockSkewSeconds + 1))}

Abs(n) == IF n < 0 THEN 0 - n ELSE n

\* app.py _verify_ip_allowlist: TRUE when the request may pass
VerifyIpAllowlist(ip, cfg) ==
    cfg.allowed_ips = {} \/ ip \in cfg.allowed_ips

\* app.py _extract_hmac_secret
ExtractHmacSecret(client) ==
    IF client # NoClient /\ client \in HmacSecretClients
    THEN HmacSecretOf(client)
    ELSE IF DefaultClient \in HmacSecretClients THEN HmacSecretOf(DefaultClient)
    ELSE "nosecret"

\* app.py _check_hmac_signature: "absent" (returns False), "valid" (returns
\* True), or the error code of the HTTPException it raises
CheckHmacSignature(sig, ts, client) ==
    IF sig.kind = "none" \/ ts.kind = "none" THEN "absent"
    ELSE IF sig.kind # "sha256" THEN "invalid_signature_format"
    ELSE IF ts.kind = "nan" THEN "invalid_timestamp"
    ELSE IF Abs(0 - ts.offset) > ClockSkewSeconds THEN "timestamp_out_of_range"
    ELSE IF ExtractHmacSecret(client) = "nosecret" THEN "missing_hmac_secret"
    ELSE IF Sha256Sig(ExtractHmacSecret(client), "body") # sig THEN "signature_mismatch"
    ELSE "valid"

\* app.py _check_api_key
CheckApiKey(bearer) == bearer # "none" /\ bearer \in ApiKeys

\* app.py _authorize_webhook: "ok", or the error code of the 401 it raises
AuthorizeWebhook(bearer, sig, ts, client, cfg) ==
    IF ~cfg.require_auth THEN "ok"
    ELSE LET api == CheckApiKey(bearer)
             hm == CheckHmacSignature(sig, ts, client)
         IN  IF hm \notin {"absent", "valid"} THEN hm
             ELSE IF ~(api \/ hm = "valid") THEN "authentication_required"
             ELSE "ok"

\* presets.py load_preset, as webhook_intake calls it
LoadPreset(client, preset) ==
    <<(IF client = NoClient THEN DefaultClient ELSE client), preset>> \in PresetFiles

\* Fault: the credentials are checked before the allow-list.
CredentialsFirst(ip, bearer, sig, ts, client, preset, cfg) ==
    IF AuthorizeWebhook(bearer, sig, ts, client, cfg) # "ok"
        THEN ErrorResp("intake", 401, AuthorizeWebhook(bearer, sig, ts, client, cfg))
    ELSE IF ~VerifyIpAllowlist(ip, cfg) THEN ErrorResp("intake", 403, "ip_not_allowed")
    ELSE IF preset # NoPreset /\ ~LoadPreset(client, preset)
        THEN ErrorResp("intake", 404, "preset_not_found")
    ELSE NoResp

\* app.py webhook_intake, lines 195-208: the response of a request that is
\* rejected there, NoResp for one that goes on
AuthorizeOutcome(ip, bearer, sig, ts, client, preset, cfg) ==
    IF ~VerifyIpAllowlist(ip, cfg) THEN ErrorResp("intake", 403, "ip_not_allowed")
    ELSE IF AuthorizeWebhook(bearer, sig, ts, client, cfg) # "ok"
        THEN ErrorResp("intake", 401, AuthorizeWebhook(bearer, sig, ts, client, cfg))
    ELSE IF preset # NoPreset /\ ~LoadPreset(client, preset)
        THEN ErrorResp("intake", 404, "preset_not_found")
    ELSE NoResp

\* ------------------------------------------------------ request payloads
\* What webhook_intake reads after its awaits: the content type, the shape of
\* the body, the file it carries, X-UTE-Idempotency-Key, ?sync= and the
\* recognised options.
BasePayload ==
    [ctype |-> "multipart", shape |-> "file", file |-> "f1", formClient |-> NoClient,
     headerKey |-> NoKey, syncQ |-> "none", syncOpt |-> "none", headerRow |-> "none",
     adapter |-> "unset"]
\* requests that pass the checks of lines 214-254
GoodPayloads ==
    {BasePayload,
     [BasePayload EXCEPT !.syncQ = "false"],
     [BasePayload EXCEPT !.formClient = "c2", !.syncOpt = "true"],
     [BasePayload EXCEPT !.ctype = "json", !.shape = "b64", !.headerKey = "k1",
                         !.syncQ = "false", !.adapter = "none"],
     [BasePayload EXCEPT !.ctype = "json", !.shape = "url", !.file = "f2",
                         !.headerKey = "k1", !.syncQ = "true"]}
\* requests whose file or options are not what the pipeline expects
OddPayloads ==
    {[BasePayload EXCEPT !.file = "bad", !.syncQ = "false"],
     [BasePayload EXCEPT !.file = "empty", !.syncQ = "true"],
     [BasePayload EXCEPT !.headerRow = "abc", !.syncQ = "true"],
     [BasePayload EXCEPT !.headerRow = "99", !.syncQ = "true"],
     [BasePayload EXCEPT !.syncQ = "maybe"],
     [BasePayload EXCEPT !.syncOpt = "maybe"]}
\* requests lines 214-254 reject
BadPayloads ==
    {[BasePayload EXCEPT !.shape = "nofile"], [BasePayload EXCEPT !.file = "big"],
     [BasePayload EXCEPT !.ctype = "json", !.shape = "b64"]}
    \cup {[BasePayload EXCEPT !.ctype = "json", !.shape = sh, !.headerKey = "k1"] :
            sh \in {"empty_body", "invalid_json", "both", "neither", "bad_b64",
                    "download_failed"}}
    \cup {[BasePayload EXCEPT !.ctype = "json", !.shape = sh, !.file = f, !.headerKey = "k1"] :
            sh \in {"b64", "url"}, f \in {"big", "empty"}}
Payloads == GoodPayloads \cup OddPayloads \cup BadPayloads

\* len(file_bytes)
FileSize(file) ==
    CASE file = "empty" -> 0
      [] file = "big" -> WebhookMaxUploadMb * BytesPerMb + 1
      [] OTHER -> 4096

\* hashlib.md5(file_bytes).hexdigest()
Md5(file) ==
    CASE file = "f1" -> "d41d-f1"
      [] file = "f2" -> "9e10-f2"
      [] file = "bad" -> "77c2-bad"
      [] file = "big" -> "0b5a-big"
      [] OTHER -> "d41d8cd9"

\* An idempotency key: the header's text, or what _generate_idempotency_key
\* builds, f"{prefix}:{digest}", with the suffix replay_delivery appends
HeaderKey(text) == [prefix |-> "-", digest |-> text, suffix |-> ""]

\* app.py _generate_idempotency_key
GenerateIdempotencyKey(client, file) ==
    [prefix |-> (IF client = NoClient THEN DefaultClient ELSE client),
     digest |-> Md5(file), suffix |-> ""]

\* app.py _enforce_size: TRUE when it raises payload_too_large
EnforceSizeRaises(size, limitMb) == size > limitMb * BytesPerMb

\* app.py _parse_bool_param on the texts the model sends: "maybe" is None
ParseBoolParam(text) == IF text = "true" THEN "true" ELSE IF text = "false" THEN "false" ELSE "none"

\* app.py _resolve_sync_flag: "sync", "async", or "invalid_sync_param"
ResolveSyncFlag(syncQ, syncOpt, cfg) ==
    IF syncQ # "none"
    THEN (IF ParseBoolParam(syncQ) = "none" THEN "invalid_sync_param"
          ELSE IF ParseBoolParam(syncQ) = "true" THEN "sync" ELSE "async")
    ELSE IF syncOpt # "none"
    THEN (IF ParseBoolParam(syncOpt) = "none" THEN "invalid_sync_param"
          ELSE IF ParseBoolParam(syncOpt) = "true" THEN "sync" ELSE "async")
    ELSE IF cfg.async_default THEN "async" ELSE "sync"

\* app.py webhook_intake, lines 214-254: the error code of the bad_request it
\* raises, or "ok"
ValidatePayload(p) ==
    IF p.ctype = "multipart"
    THEN (IF p.shape = "nofile" THEN "missing_file"
          ELSE IF EnforceSizeRaises(FileSize(p.file), WebhookMaxUploadMb) THEN "payload_too_large"
          ELSE "ok")
    ELSE (IF p.shape = "empty_body" THEN "empty_body"
          ELSE IF p.shape = "invalid_json" THEN "invalid_json"
          ELSE IF p.shape = "both" THEN "conflicting_payload"
          ELSE IF p.shape = "neither" \/ (p.shape = "b64" /\ FileSize(p.file) = 0)
              THEN "missing_file_reference"
          ELSE IF p.shape = "download_failed" THEN "download_failed"
          ELSE IF p.shape = "url" /\ FileSize(p.file) = 0 THEN "empty_download"
          ELSE IF p.shape = "url" /\ FileSize(p.file) > WebhookMaxUploadMb * BytesPerMb
              THEN "download_too_large"
          ELSE IF p.shape = "bad_b64" THEN "invalid_base64"
          ELSE IF EnforceSizeRaises(FileSize(p.file), WebhookMaxUploadMb) THEN "payload_too_large"
          ELSE IF p.headerKey = NoKey THEN "missing_idempotency_key"
          ELSE "ok")

\* app.py webhook_intake, lines 224-225 and 252
IdempotencyKeyOf(p, pathClient) ==
    IF p.headerKey # NoKey THEN HeaderKey(p.headerKey)
    ELSE GenerateIdempotencyKey(pathClient, p.file)

\* app.py webhook_intake, lines 256-258
EffectiveClient(p, pathClient) ==
    IF p.formClient # NoClient THEN p.formClient
    ELSE IF pathClient # NoClient THEN pathClient
    ELSE DefaultClient

\* ------------------------------------------------- _run_parse_from_bytes
\* int(header_row_option): the integer, or a ValueError
IntOf(text) ==
    CASE text = "0" -> [ok |-> TRUE, val |-> 0]
      [] text = "-1" -> [ok |-> TRUE, val |-> 0 - 1]
      [] text = "99" -> [ok |-> TRUE, val |-> 99]
      [] OTHER -> [ok |-> FALSE, val |-> 0]

\* len(sample.sample_rows) for the files of the model
SampleRowCount(file) == IF file = "empty" THEN 0 ELSE 5

\* app.py _run_parse_from_bytes, lines 689-696: the status of the response.
\* The pipeline is a function of the bytes and the options, so a file has one.
StatusOf(file) == IF file = "f2" THEN "needs_rulefile" ELSE "ok"

Raised(code, error) ==
    [raised |-> TRUE, code |-> code, error |-> error, status |-> "-", exported |-> FALSE]
Parsed(status, exported) ==
    [raised |-> FALSE, code |-> 200, error |-> "-", status |-> status, exported |-> exported]

\* app.py _run_parse_from_bytes, lines 621-634: the bad_request the header_row
\* override raises, or "ok"
HeaderRowCheck(file, headerRow) ==
    IF headerRow = "none" THEN "ok"
    ELSE IF ~IntOf(headerRow).ok THEN "invalid_header_row"
    ELSE IF IntOf(headerRow).val < 0 THEN "invalid_header_row"
    ELSE IF IntOf(headerRow).val >= SampleRowCount(file) THEN "header_row_out_of_range"
    ELSE "ok"

\* app.py _run_parse_from_bytes, lines 724-729: whether an export adapter writes
ExportRuns(adapter) == adapter # "none"

\* app.py _run_parse_from_bytes: what one call can end in.  load_file raises
\* for an unsupported or oversized file, the header_row override raises a
\* bad_request, an empty sample cannot be read as a table; past these the
\* call returns the file's status, or raises over what it reads outside the
\* request (rules directory, adapters, disk).
ParseOutcomes(file, headerRow, adapter) ==
    IF file = "bad" \/ FileSize(file) > MaxUploadMb * BytesPerMb
    THEN {Raised(500, "ValueError")}
    ELSE IF HeaderRowCheck(file, headerRow) # "ok"
    THEN {Raised(400, HeaderRowCheck(file, headerRow))}
    ELSE IF SampleRowCount(file) = 0
    THEN {Raised(500, "EmptyDataError")}
    ELSE {Raised(500, "Exception")}
         \cup {Parsed(StatusOf(file), ExportRuns(adapter))}

\* ------------------------------------------------------------- receipts
Note(tag, arg) == [tag |-> tag, arg |-> arg]
\* result.notes of a call that returned
ParseNotes == <<Note("detected_format", 0), Note("header_assumed_row", 0)>>

\* models.py WebhookReceipt
Receipt(id, client, preset, key, status, processing, sync, at, file, notes, parse, artifacts) ==
    [intake_id |-> id, client_id |-> client, preset_id |-> preset, idempotency_key |-> key,
     status |-> status, processing |-> processing, duplicate |-> FALSE, sync |-> sync,
     received_at |-> at, filename |-> file, notes |-> notes, parse |-> parse,
     artifacts |-> artifacts, results_url |-> id]

\* app.py _store_source_files and lines 283-287: the artifacts of a new intake
SourceArtifacts(hasRequest) ==
    {"source", "receipt", "results_url"} \cup (IF hasRequest THEN {"request"} ELSE {})

\* ------------------------------------------------------------ WebhookStore
Min(a, b) == IF a < b THEN a ELSE b

\* webhook_store.py save_receipt, lines 138-168: the index entry of a receipt
IndexEntry(receipt, key) ==
    [intake_id |-> receipt.intake_id, client_id |-> receipt.client_id,
     preset_id |-> receipt.preset_id, status |-> receipt.status,
     parsed |-> receipt.parse # "none", received_at |-> receipt.received_at,
     filename |-> receipt.filename, idempotency_key |-> key,
     receipt_path |-> receipt.intake_id,
     notes |-> SubSeq(receipt.notes, 1, Min(10, Len(receipt.notes)))]

\* Fault: save_receipt appends without looking for the intake id.
AppendIndex(entries, receipt, key) == Append(entries, IndexEntry(receipt, key))

\* the first position of an entry with this intake id, 0 when there is none
PositionOf(entries, id) ==
    IF \E i \in 1..Len(entries) : entries[i].intake_id = id
    THEN CHOOSE i \in 1..Len(entries) :
            /\ entries[i].intake_id = id
            /\ \A j \in 1..(i - 1) : entries[j].intake_id # id
    ELSE 0

\* webhook_store.py save_receipt, lines 133-170: the index after the save
UpsertIndex(entries, receipt, key) ==
    IF PositionOf(entries, receipt.intake_id) # 0
    THEN [entries EXCEPT ![PositionOf(entries, receipt.intake_id)] = IndexEntry(receipt, key)]
    ELSE Append(entries, IndexEntry(receipt, key))

\* webhook_store.py save_receipt: the receipt files, the index and the cache
\* after save_receipt(receipt, client_id=client, idempotency_key=key)
SavedReceipts(rcpts, receipt) ==
    [id \in DOMAIN rcpts \cup {receipt.intake_id} |->
        IF id = receipt.intake_id THEN receipt ELSE rcpts[id]]
SavedIndex(idx, receipt, client, key) ==
    [idx EXCEPT ![client] = UpsertIndex(idx[client], receipt, key)]
SavedCache(ch, receipt, client, key) ==
    [k \in DOMAIN ch \cup {<<client, key>>} |->
        IF k = <<client, key>> THEN receipt.intake_id ELSE ch[k]]

\* webhook_store.py find_by_idempotency, lines 102-113: the intake ids of the
\* index entries that carry the key and whose receipt file exists, first first
ScanIndex(entries, key, rcpts) ==
    SelectSeq(entries, LAMBDA e : e.idempotency_key = key /\ e.receipt_path \in DOMAIN rcpts)

\* Fault: the lookup consults the cache and never scans the index.
FindInCacheOnly(client, key, ch, idx, rcpts) ==
    IF <<client, key>> \in DOMAIN ch /\ ch[<<client, key>>] \in DOMAIN rcpts
    THEN {ch[<<client, key>>]}
    ELSE {}

\* Fault: the lookup matches the key alone, whichever client stored it.
FindAcrossClients(client, key, ch, idx, rcpts) ==
    {id \in DOMAIN rcpts : rcpts[id].idempotency_key = key}

\* Fault: the lookup takes only finished receipts for duplicates.
FindFinishedOnly(client, key, ch, idx, rcpts) ==
    {id \in DOMAIN rcpts :
        /\ rcpts[id].client_id = client
        /\ rcpts[id].idempotency_key = key
        /\ ~rcpts[id].processing}

\* webhook_store.py find_by_idempotency: the intake id whose receipt it
\* returns, as a set: empty when it returns None
FindByIdempotency(client, key, ch, idx, rcpts) ==
    IF <<client, key>> \in DOMAIN ch /\ ch[<<client, key>>] \in DOMAIN rcpts
    THEN {ch[<<client, key>>]}
    ELSE IF ScanIndex(idx[client], key, rcpts) # <<>>
    THEN {ScanIndex(idx[client], key, rcpts)[1].receipt_path}
    ELSE {}

\* webhook_store.py find_by_idempotency, line 107: the cache after the lookup
CacheAfterFind(client, key, ch, idx, rcpts) ==
    IF <<client, key>> \in DOMAIN ch /\ ch[<<client, key>>] \in DOMAIN rcpts
    THEN ch
    ELSE IF ScanIndex(idx[client], key, rcpts) # <<>>
    THEN [k \in DOMAIN ch \cup {<<client, key>>} |->
            IF k = <<client, key>> THEN ScanIndex(idx[client], key, rcpts)[1].receipt_path
            ELSE ch[k]]
    ELSE ch

\* webhook_store.py get_receipt / load_receipt: the ids found, as a set
GetReceipt(id, client, rcpts) ==
    IF id \notin DOMAIN rcpts THEN {}
    ELSE IF client # NoClient /\ rcpts[id].client_id # client THEN {}
    ELSE {id}

\* webhook_store.py list_deliveries, line 181: entries.sort(key=received_at,
\* reverse=True), which keeps the file order of entries with equal keys
RECURSIVE SortByReceivedAtDesc(_)
SortByReceivedAtDesc(entries) ==
    IF entries = <<>> THEN <<>>
    ELSE LET first == CHOOSE i \in 1..Len(entries) :
                        /\ \A j \in 1..Len(entries) :
                              entries[j].received_at <= entries[i].received_at
                        /\ \A j \in 1..(i - 1) :
                              entries[j].received_at < entries[i].received_at
             rest == [k \in 1..(Len(entries) - 1) |->
                        IF k < first THEN entries[k] ELSE entries[k + 1]]
         IN  <<entries[first]>> \o SortByReceivedAtDesc(rest)

\* webhook_store.py list_deliveries: the intake ids of the summaries returned
ListDeliveriesOf(entries, statusFilter) ==
    LET sorted == SortByReceivedAtDesc(entries)
        kept == SelectSeq(sorted, LAMBDA e : statusFilter = "none" \/ e.status = statusFilter)
    IN  [i \in 1..Min(50, Len(kept)) |-> kept[i].intake_id]

\* --------------------------------------------------------------- initial
\* no function is applied on its own
NoCall == [fn |-> "-"]

NoAuthIn ==
    [ip |-> "-", bearer |-> "-", sig |-> NoSig, ts |-> NoTs, client |-> NoClient]

Init ==
    /\ config \in Configs
    /\ pc = [r \in Rids |-> "new"]
    /\ reqPath = [r \in Rids |-> [client |-> NoClient, preset |-> NoPreset]]
    /\ lastResponse = NoResp
    /\ nextId = 1
    /\ clock = 0
    /\ sources = <<>>
    /\ receipts = <<>>
    /\ index = [c \in StoreClients |-> <<>>]
    /\ cache = <<>>
    /\ jobs = {}
    /\ parseRuns = 0
    /\ exports = 0
    /\ replays = 0
    /\ authIn = NoAuthIn
    /\ authOut = "-"
    /\ fnIn = NoCall
    /\ fnOut = NoCall
    /\ threads = <<>>
    /\ lock = 0

\* ------------------------------------------------- POST /webhook/v1/intake
\* app.py webhook_intake, lines 195-208: allow-list, credentials, preset
AuthorizeWith(r, cred, path) ==
    /\ pc[r] = "new"
    /\ \A q \in 1..(r - 1) : pc[q] # "new"    \* requests are numbered as they arrive
    /\ LET out == AuthorizeOutcome(cred.ip, cred.bearer, cred.sig, cred.ts,
                                   path.client, path.preset, config)
       IN  IF out = NoResp
           THEN /\ pc' = [pc EXCEPT ![r] = "authorized"]
                /\ reqPath' = [reqPath EXCEPT ![r] = path]
                /\ lastResponse' = NoResp
           ELSE /\ pc' = [pc EXCEPT ![r] = "done"]
                /\ lastResponse' = out
                /\ UNCHANGED reqPath
    /\ UNCHANGED <<config, nextId, clock, sources, receipts, index, cache, jobs,
                   parseRuns, exports, replays, authIn, authOut, fnIn, fnOut, threads, lock>>

Authorize(r) ==
    \E cred \in Credentials, path \in Paths : AuthorizeWith(r, cred, path)

\* the source artifact _store_source_files writes for an intake
Stored(srcs, id, client, file, hasRequest) ==
    [i \in DOMAIN srcs \cup {id} |->
        IF i = id THEN [client |-> client, file |-> file, request |-> hasRequest]
        ELSE srcs[i]]

\* Fault: the task is given the id of the first intake, not of this one.
StaleJob(id, client, preset, key, p, artifacts) ==
    [intake_id |-> 1, client_id |-> client, preset_id |-> preset, idempotency_key |-> key,
     file |-> p.file, headerRow |-> p.headerRow, adapter |-> p.adapter,
     artifacts |-> artifacts]

\* what background_tasks.add_task is given
Job(id, client, preset, key, p, artifacts) ==
    [intake_id |-> id, client_id |-> client, preset_id |-> preset, idempotency_key |-> key,
     file |-> p.file, headerRow |-> p.headerRow, adapter |-> p.adapter,
     artifacts |-> artifacts]

\* app.py webhook_intake, lines 210-380, for the payload p
HandleWith(r, p) ==
    /\ pc[r] = "authorized"
    /\ pc' = [pc EXCEPT ![r] = "done"]
    /\ LET client == EffectiveClient(p, reqPath[r].client)
           key == IdempotencyKeyOf(p, reqPath[r].client)
           preset == reqPath[r].preset
           flag == ResolveSyncFlag(p.syncQ, p.syncOpt, config)
           dup == FindByIdempotency(client, key, cache, index, receipts)
           id == nextId
           arts == SourceArtifacts(p.ctype = "json")
       IN  IF ValidatePayload(p) # "ok"
           THEN /\ lastResponse' = ErrorResp("intake", 400, ValidatePayload(p))
                /\ UNCHANGED <<nextId, clock, sources, receipts, index, cache, jobs,
                               parseRuns, exports>>
           ELSE IF flag = "invalid_sync_param"
           THEN /\ lastResponse' = ErrorResp("intake", 400, flag)
                /\ UNCHANGED <<nextId, clock, sources, receipts, index, cache, jobs,
                               parseRuns, exports>>
           ELSE IF dup # {}
           THEN /\ lastResponse' = ReceiptResp("intake",
                      [receipts[CHOOSE d \in dup : TRUE] EXCEPT !.duplicate = TRUE])
                /\ cache' = CacheAfterFind(client, key, cache, index, receipts)
                /\ UNCHANGED <<nextId, clock, sources, receipts, index, jobs,
                               parseRuns, exports>>
           ELSE /\ nextId' = nextId + 1
                /\ clock' = clock + 1
                /\ sources' = Stored(sources, id, client, p.file, p.ctype = "json")
                /\ IF flag = "sync"
                   THEN /\ parseRuns' = parseRuns + 1
                        /\ UNCHANGED jobs
                        /\ \E o \in ParseOutcomes(p.file, p.headerRow, p.adapter) :
                             IF o.raised
                             THEN /\ lastResponse' = ErrorResp("intake", o.code, o.error)
                                  /\ UNCHANGED <<receipts, index, cache, exports>>
                             ELSE LET receipt == Receipt(id, client, preset, key, o.status, FALSE,
                                                         TRUE, clock, p.file, ParseNotes, o.status,
                                                         arts \cup {"adapter_results"})
                                  IN  /\ receipts' = SavedReceipts(receipts, receipt)
                                      /\ index' = SavedIndex(index, receipt, client, key)
                                      /\ cache' = SavedCache(cache, receipt, client, key)
                                      /\ exports' = exports + (IF o.exported THEN 1 ELSE 0)
                                      /\ lastResponse' = ReceiptResp("intake", receipt)
                   ELSE LET receipt == Receipt(id, client, preset, key, "queued", TRUE, FALSE,
                                               clock, p.file, <<Note("queued", 0)>>, "none", arts)
                        IN  /\ receipts' = SavedReceipts(receipts, receipt)
                            /\ index' = SavedIndex(index, receipt, client, key)
                            /\ cache' = SavedCache(cache, receipt, client, key)
                            /\ jobs' = jobs \cup {Job(id, client, preset, key, p, arts)}
                            /\ lastResponse' = ReceiptResp("intake", receipt)
                            /\ UNCHANGED <<parseRuns, exports>>
    /\ UNCHANGED <<config, reqPath, replays, authIn, authOut, fnIn, fnOut, threads, lock>>

Handle(r) == \E p \in Payloads : HandleWith(r, p)

\* Fault: the task ends without saving a receipt.
DropJob(job) ==
    /\ job \in jobs
    /\ jobs' = jobs \ {job}
    /\ lastResponse' = NoResp
    /\ UNCHANGED <<config, pc, reqPath, nextId, clock, sources, receipts, index, cache,
                   parseRuns, exports, replays, authIn, authOut, fnIn, fnOut, threads, lock>>

\* app.py _process_async_intake, run by the background tasks of a response
ProcessAsyncIntake(job) ==
    /\ job \in jobs
    /\ jobs' = jobs \ {job}
    /\ clock' = clock + 1
    /\ parseRuns' = parseRuns + 1
    /\ \E o \in ParseOutcomes(job.file, job.headerRow, job.adapter) :
         LET receipt ==
               IF o.raised
               THEN Receipt(job.intake_id, job.client_id, job.preset_id, job.idempotency_key,
                            "failed", FALSE, FALSE, clock, job.file,
                            <<Note("error", o.code)>>, "none", job.artifacts)
               ELSE Receipt(job.intake_id, job.client_id, job.preset_id, job.idempotency_key,
                            o.status, FALSE, FALSE, clock, job.file, ParseNotes, o.status,
                            job.artifacts \cup {"adapter_results"})
         IN  /\ receipts' = SavedReceipts(receipts, receipt)
             /\ index' = SavedIndex(index, receipt, job.client_id, job.idempotency_key)
             /\ cache' = SavedCache(cache, receipt, job.client_id, job.idempotency_key)
             /\ exports' = exports + (IF o.exported THEN 1 ELSE 0)
    /\ lastResponse' = NoResp
    /\ UNCHANGED <<config, pc, reqPath, nextId, sources, replays, authIn, authOut, fnIn, fnOut, threads, lock>>

\* --------------------------------------------------------------- admin
\* the overrides a replay request can carry
ReplayOverrides ==
    {[headerRow |-> "none", adapter |-> "unset"], [headerRow |-> "abc", adapter |-> "unset"]}
AdminClients == {NoClient, "c1"}

\* app.py replay_delivery.  Its one await (request.json()) stands between
\* reading the original and writing anything, and nothing it read is
\* rewritten by another handler, so it is one step.  present is what
\* Path(source_path).exists() answers: the output directory is the
\* operator's, who may have moved the file away.  most is the number of
\* replays the run is cut at.
ReplayWithin(most, id, clientQ, ov, present) ==
    /\ replays < most
    /\ replays' = replays + 1
    /\ LET found == GetReceipt(id, clientQ, receipts)
       IN  IF found = {}
           THEN /\ lastResponse' = ErrorResp("replay", 404, "intake_not_found")
                /\ UNCHANGED <<nextId, clock, sources, receipts, index, cache,
                               parseRuns, exports>>
           ELSE IF id \notin DOMAIN sources \/ ~present
           THEN /\ lastResponse' = ErrorResp("replay", 404, "source_missing")
                /\ UNCHANGED <<nextId, clock, sources, receipts, index, cache,
                               parseRuns, exports>>
           ELSE LET original == receipts[id]
                    new == nextId
                    file == sources[id].file
                    client == original.client_id
                    key == [GenerateIdempotencyKey(client, file) EXCEPT !.suffix = ":replay"]
                IN  /\ nextId' = nextId + 1
                    /\ clock' = clock + 1
                    /\ sources' = Stored(sources, new, client, file, TRUE)
                    /\ parseRuns' = parseRuns + 1
                    /\ \E o \in ParseOutcomes(file, ov.headerRow, ov.adapter) :
                         IF o.raised
                         THEN /\ lastResponse' = ErrorResp("replay", o.code, o.error)
                              /\ UNCHANGED <<receipts, index, cache, exports>>
                         ELSE LET receipt ==
                                    Receipt(new, client, original.preset_id, key, o.status,
                                            FALSE, TRUE, clock, original.filename,
                                            <<Note("replay_of", id)>> \o ParseNotes, o.status,
                                            SourceArtifacts(TRUE) \cup {"adapter_results"})
                              IN  /\ receipts' = SavedReceipts(receipts, receipt)
                                  /\ index' = SavedIndex(index, receipt, client, key)
                                  /\ cache' = SavedCache(cache, receipt, client, key)
                                  /\ exports' = exports + (IF o.exported THEN 1 ELSE 0)
                                  /\ lastResponse' = ReceiptResp("replay", receipt)
    /\ UNCHANGED <<config, pc, reqPath, jobs, authIn, authOut, fnIn, fnOut, threads, lock>>

ReplayWith(id, clientQ, ov, present) == ReplayWithin(MaxReplays, id, clientQ, ov, present)

ReplayDelivery ==
    \E id \in Ids, clientQ \in AdminClients, ov \in ReplayOverrides, present \in BOOLEAN :
        ReplayWith(id, clientQ, ov, present)

\* the listings asked for: ?client_id= and ?status_filter=
ListQueries ==
    {[client |-> NoClient, status |-> "none"], [client |-> "c1", status |-> "queued"]}

\* app.py list_deliveries_admin
ListDeliveries ==
    /\ \E q \in ListQueries :
         lastResponse' = ListResp(ListDeliveriesOf(
                            index[IF q.client = NoClient THEN DefaultClient ELSE q.client],
                            q.status))
    /\ UNCHANGED <<config, pc, reqPath, nextId, clock, sources, receipts, index, cache,
                   jobs, parseRuns, exports, replays, authIn, authOut, fnIn, fnOut, threads, lock>>

\* the details asked for: the intake id and ?client_id=
DetailQueries ==
    {[id |-> 1, client |-> NoClient], [id |-> 1, client |-> "c1"],
     [id |-> 2, client |-> NoClient]}

\* app.py delivery_detail
DeliveryDetail ==
    /\ \E q \in DetailQueries :
         lastResponse' =
            IF GetReceipt(q.id, q.client, receipts) = {}
            THEN ErrorResp("detail", 404, "intake_not_found")
            ELSE ReceiptResp("detail", receipts[q.id])
    /\ UNCHANGED <<config, pc, reqPath, nextId, clock, sources, receipts, index, cache,
                   jobs, parseRuns, exports, replays, authIn, authOut, fnIn, fnOut, threads, lock>>

\* ---------------------------------------------------------------- restart
\* The process is started again with nothing in flight: WebhookStore.__init__
\* builds an empty _idempotency_cache over the files that are on disk.
Restart ==
    /\ \A r \in Rids : pc[r] # "authorized"
    /\ jobs = {}
    /\ DOMAIN cache # {}
    /\ cache' = <<>>
    /\ lastResponse' = NoResp
    /\ UNCHANGED <<config, pc, reqPath, nextId, clock, sources, receipts,
                   index, jobs, parseRuns, exports, replays, authIn, authOut, fnIn, fnOut, threads, lock>>

\* ------------------------------------------------------------------ spec
Next ==
    \/ \E r \in Rids : Authorize(r)
    \/ \E r \in Rids : Handle(r)
    \/ \E job \in jobs : ProcessAsyncIntake(job)
    \/ ReplayDelivery
    \/ ListDeliveries
    \/ DeliveryDetail
    \/ Restart

Spec == Init /\ [][Next]_vars

\* The event loop runs every background task it was given.
FairSpec == Spec /\ WF_vars(\E job \in jobs : ProcessAsyncIntake(job))

\* One intake request and one replay more than MaxReplays: a delivery can be
\* replayed again, and a replay can be replayed.
ReplaySpec ==
    /\ Init
    /\ [][\/ Authorize(1)
          \/ Handle(1)
          \/ \E job \in jobs : ProcessAsyncIntake(job)
          \/ \E id \in Ids, clientQ \in AdminClients, ov \in ReplayOverrides :
                ReplayWithin(MaxReplays + 1, id, clientQ, ov, TRUE)
          \/ Restart]_vars

\* One intake whose only credential is an HMAC signature: where
\* webhook_require_auth is set, a request that goes on was verified with the
\* secret _extract_hmac_secret finds for the client of its path.
SignedSpec ==
    /\ Init
    /\ [][\/ \E cred \in {c \in Credentials : c.bearer = "none"}, path \in Paths :
                AuthorizeWith(1, cred, path)
          \/ Handle(1)
          \/ \E job \in jobs : ProcessAsyncIntake(job)]_vars

\* ------------------------------------------- _authorize_webhook on its own
AuthInit ==
    /\ config \in AllConfigs
    /\ authIn \in AuthInputs
    /\ authOut = "-"
    /\ pc = [r \in Rids |-> "new"]
    /\ reqPath = [r \in Rids |-> [client |-> NoClient, preset |-> NoPreset]]
    /\ lastResponse = NoResp
    /\ nextId = 1
    /\ clock = 0
    /\ sources = <<>>
    /\ receipts = <<>>
    /\ index = [c \in StoreClients |-> <<>>]
    /\ cache = <<>>
    /\ jobs = {}
    /\ parseRuns = 0
    /\ exports = 0
    /\ replays = 0
    /\ fnIn = NoCall
    /\ fnOut = NoCall
    /\ threads = <<>>
    /\ lock = 0

\* app.py webhook_intake, lines 201-202, applied to the request authIn
AuthorizeStep ==
    /\ authOut = "-"
    /\ LET out == AuthorizeOutcome(authIn.ip, authIn.bearer, authIn.sig, authIn.ts,
                                   authIn.client, NoPreset, config)
       IN  authOut' = IF out = NoResp THEN "authorized" ELSE out.error
    /\ UNCHANGED <<config, pc, reqPath, lastResponse, nextId, clock, sources, receipts,
                   index, cache, jobs, parseRuns, exports, replays, authIn, fnIn, fnOut, threads, lock>>

AuthSpec == AuthInit /\ [][AuthorizeStep]_vars

\* ------------------------------------------------ functions on their own
\* a function is about to be applied to arguments drawn from inputs, the
\* intake subsystem having received nothing
CallOf(inputs) ==
    /\ config = [require_auth |-> FALSE, allowed_ips |-> {}, async_default |-> FALSE]
    /\ pc = [r \in Rids |-> "new"]
    /\ reqPath = [r \in Rids |-> [client |-> NoClient, preset |-> NoPreset]]
    /\ lastResponse = NoResp
    /\ nextId = 1
    /\ clock = 0
    /\ sources = <<>>
    /\ receipts = <<>>
    /\ index = [c \in StoreClients |-> <<>>]
    /\ cache = <<>>
    /\ jobs = {}
    /\ parseRuns = 0
    /\ exports = 0
    /\ replays = 0
    /\ authIn = NoAuthIn
    /\ authOut = "-"
    /\ fnIn \in inputs
    /\ fnOut = NoCall
    /\ threads = <<>>
    /\ lock = 0

\* the function fn applied to fnIn returns value; the intake subsystem is
\* left alone
Returns(fn, value) ==
    /\ fnIn.fn = fn
    /\ fnOut = NoCall
    /\ fnOut' = [fn |-> fn, value |-> value]
    /\ UNCHANGED <<config, pc, reqPath, lastResponse, nextId, clock, sources, receipts, index,
                   cache, jobs, parseRuns, exports, replays, authIn, authOut, fnIn, threads,
                   lock>>

RECURSIVE SumSeq(_)
SumSeq(seq) == IF seq = <<>> THEN 0 ELSE Head(seq) + SumSeq(Tail(seq))

Max(a, b) == IF a > b THEN a ELSE b

\* ---------------------------------------------------- the response status
\* Confidences are counted in hundredths.  normalize.py line 62 and app.py
\* lines 690-692 compute in IEEE doubles, where 0.7 + 0.6 is
\* 1.2999999999999998: for the lists named below the sum comes out one unit
\* in the last place under its exact value, which decides a comparison only
\* at equality.

\* normalize.py normalize_table, lines 62 and 71: avg_confidence >= 0.65
StatusHint(confs) ==
    LET roundsDown == confs \in {<<70, 60>>, <<60, 70>>}
    IN  IF SumSeq(confs) >= 65 * Max(Len(confs), 1) /\ ~roundsDown
        THEN "ok" ELSE "parsed_with_low_confidence"

\* app.py _run_parse_from_bytes, lines 690-693: overall_confidence < 0.6,
\* overall_confidence being the mean of the header's and the columns'
OverallBelow(hconf, confs) ==
    LET n == Max(Len(confs), 1)
        twice == hconf * n + SumSeq(confs)       \* 2n times the overall confidence
        roundsDown == /\ hconf = 50
                      /\ confs \in {<<70, 70, 70>>, <<70, 60, 80>>, <<60, 70, 80>>,
                                    <<60, 80, 70>>, <<80, 60, 70>>}
    IN  twice < 120 * n \/ (twice = 120 * n /\ roundsDown)

\* Fault: a parse without a matching rule is reported needs_rulefile.
StatusRuleFirst(hconf, confs, rule) ==
    IF ~rule THEN "needs_rulefile"
    ELSE IF StatusHint(confs) = "ok" /\ ~OverallBelow(hconf, confs) THEN "ok"
    ELSE "parsed_with_low_confidence"

\* app.py _run_parse_from_bytes, lines 689-696: the status of the response;
\* rule is whether load_matching_rule returned a rule
ResponseStatus(hconf, confs, rule) ==
    LET hinted == StatusHint(confs)
        blended == IF hinted = "ok" /\ OverallBelow(hconf, confs)
                   THEN "parsed_with_low_confidence" ELSE hinted
    IN  IF ~rule /\ blended # "ok" THEN "needs_rulefile" ELSE blended

MaxColumns == 3

\* app.py _run_parse_from_bytes, lines 689-696, applied to fnIn
ComputeStatus == Returns("status", ResponseStatus(fnIn.hconf, fnIn.confs, fnIn.rule))

\* the header confidence is detect_header's clamp, a predictor's answer, or
\* 1.0 for a header_row override; the confidences _convert_series gives
\* columns are 0.3, 0.5, a ratio, 1.0
StatusSpec ==
    /\ CallOf([fn : {"status"},
               hconf : {20, 50, 55, 95, 100},
               confs : UNION {[1..n -> {30, 50, 60, 70, 80, 100}] : n \in 0..MaxColumns},
               rule : BOOLEAN])
    /\ [][ComputeStatus]_vars

\* ------------------------------------------------------------ POST /parse
NoAdapter == [adapter |-> "-", status |-> "-", kind |-> "-"]
\* what an adapter call comes to: an exception, or a result that is a dict,
\* an AdapterResult object ("model") or a list of them
AdapterCall(raised, adapter, status, kind) ==
    [raised |-> raised, error |-> IF raised THEN adapter ELSE "-",
     result |-> IF raised THEN NoAdapter
                ELSE [adapter |-> adapter, status |-> status, kind |-> kind]]

\* sheets_adapter.py export_to_sheets: the three early returns, then calls to
\* the spreadsheet service that nothing catches
ExportToSheets(run) ==
    CASE run = "skipped" -> AdapterCall(FALSE, "sheets", "skipped", "dict")
      [] run = "ok" -> AdapterCall(FALSE, "sheets", "ok", "dict")
      [] OTHER -> AdapterCall(TRUE, "sheets", "-", "-")

\* bigquery_adapter.py export_to_bigquery: the early returns, the client
\* built outside the try, the load inside it
ExportToBigquery(run) ==
    CASE run = "skipped" -> AdapterCall(FALSE, "bigquery", "skipped", "model")
      [] run = "client_fails" -> AdapterCall(TRUE, "bigquery", "-", "-")
      [] run = "fails" -> AdapterCall(FALSE, "bigquery", "error", "model")
      [] OTHER -> AdapterCall(FALSE, "bigquery", "ok", "model")

\* json_adapter.py export_json returns a list of results, or raises
ExportJson(run) ==
    IF run \in {"fails", "client_fails"} THEN AdapterCall(TRUE, "json", "-", "-")
    ELSE AdapterCall(FALSE, "json", "-", "list")

\* app.py _run_parse_from_bytes, lines 723-760: the adapter results; "skipped"
\* for json is enable_json_adapter switched off
RunAdapters(a) ==
    IF a.dryRun THEN [raised |-> FALSE, error |-> "-", result |-> NoAdapter]
    ELSE CASE a.adapter = "json" /\ a.adapterRun # "skipped" -> ExportJson(a.adapterRun)
           [] a.adapter = "sheets" -> ExportToSheets(a.adapterRun)
           [] a.adapter = "bigquery" -> ExportToBigquery(a.adapterRun)
           [] OTHER -> [raised |-> FALSE, error |-> "-", result |-> NoAdapter]

\* the confidence of the header the pipeline goes on with: 1.0 for a
\* header_row override (line 639), else what detect_header returns
HeaderConfidenceOf(a) == IF a.headerRow = "in_range" THEN 100 ELSE a.hconf

\* models.py ParseResponse; the confidence is num/den hundredths
ParseResp(status, num, den, data, note, adapters) ==
    [code |-> 200, status |-> status, confidence |-> [num |-> num, den |-> den],
     data |-> data, note |-> note, adapters |-> adapters]

\* app.py _run_parse_from_bytes, lines 603-781: the first stage that raises
\* ends the call; ParseResponse (line 773) takes dicts and AdapterResult
\* objects as adapter results, not a list
RunParse(a) ==
    LET adapters == RunAdapters(a)
        raises(text) == [raised |-> TRUE, error |-> text, response |-> NoResp]
    IN  IF ~a.loads THEN raises("load_file")
        ELSE IF a.headerRow = "out_of_range" THEN raises("header_row_out_of_range")
        ELSE IF a.headerRow = "none" /\ a.predictor = "raises" THEN raises("predictor")
        ELSE IF ~a.normalizes THEN raises("normalize_table")
        ELSE IF adapters.raised THEN raises(adapters.error)
        ELSE IF adapters.result.kind = "list" THEN raises("adapter_results")
        ELSE [raised |-> FALSE, error |-> "-",
              response |->
                 ParseResp(ResponseStatus(HeaderConfidenceOf(a), a.confs, a.rule),
                           HeaderConfidenceOf(a) * Len(a.confs) + SumSeq(a.confs),
                           2 * Len(a.confs), "rows", "-", adapters.result)]

\* app.py parse_file, lines 161-181: the answer to anything raised
FallbackResponse(text) ==
    ParseResp("parsed_with_low_confidence", 20, 1, "empty", text, NoAdapter)

\* Fault: only the failures of the upload itself are answered by the fallback.
ParseFileCatchingValueError(a) ==
    IF a.size = "empty" THEN FallbackResponse("empty file uploaded")
    ELSE IF a.size = "big" THEN FallbackResponse("file exceeds maximum size")
    ELSE LET run == RunParse(a) IN
         IF run.raised
         THEN [code |-> 500, status |-> "-", confidence |-> [num |-> 0, den |-> 1],
               data |-> "-", note |-> run.error, adapters |-> NoAdapter]
         ELSE run.response

\* app.py parse_file, lines 111-181; line 154 reads every adapter result as
\* a dict
ParseFileResponse(a) ==
    IF a.size = "empty" THEN FallbackResponse("empty file uploaded")
    ELSE IF a.size = "big" THEN FallbackResponse("file exceeds maximum size")
    ELSE LET run == RunParse(a) IN
         IF run.raised THEN FallbackResponse(run.error)
         ELSE IF run.response.adapters.kind = "model" THEN FallbackResponse("parse_success")
         ELSE run.response

\* POST /parse answered
ParseFile == Returns("parse_file", ParseFileResponse(fnIn))

\* What an upload to /parse meets on its way.  The outcome of each stage is
\* an input: whether load_file reads the bytes, what the header_row option
\* asks, what the header predictor does, whether normalize_table returns,
\* whether a rule file matches, and what the chosen adapter meets outside.
ParseSpec ==
    /\ CallOf([fn : {"parse_file"},
               size : {"empty", "ok", "big"},
               loads : BOOLEAN,
               headerRow : {"none", "in_range", "out_of_range"},
               predictor : {"off", "no_answer", "answers", "raises"},
               hconf : {20, 95},
               confs : {<<100>>, <<30>>, <<70, 60>>},
               normalizes : BOOLEAN,
               rule : BOOLEAN,
               adapter : {"json", "sheets", "bigquery", "none"},
               adapterRun : {"skipped", "ok", "fails", "client_fails"},
               dryRun : BOOLEAN])
    /\ [][ParseFile]_vars

\* ----------------------------------------------------------- parse_number
\* Text is a sequence of characters.
DecDigits == <<"0", "1", "2", "3", "4", "5", "6", "7", "8", "9">>
\* str.isdigit()
IsDigit(ch) == \E i \in DOMAIN DecDigits : DecDigits[i] = ch
\* int(text) of a run of digits
RECURSIVE DigitsToInt(_)
DigitsToInt(ds) ==
    IF ds = <<>> THEN 0
    ELSE 10 * DigitsToInt(SubSeq(ds, 1, Len(ds) - 1))
         + (CHOOSE i \in DOMAIN DecDigits : DecDigits[i] = ds[Len(ds)]) - 1

\* str.strip()
Strip(s) ==
    LET inked == {i \in DOMAIN s : s[i] # " "}
    IN  IF inked = {} THEN <<>>
        ELSE SubSeq(s, CHOOSE i \in inked : \A j \in inked : i <= j,
                       CHOOSE i \in inked : \A j \in inked : j <= i)

\* str.replace(c, "")
Remove(s, c) == SelectSeq(s, LAMBDA ch : ch # c)
\* str.count(c)
Count(s, c) == Cardinality({i \in DOMAIN s : s[i] = c})
\* str.rfind(c)
RFind(s, c) ==
    IF Count(s, c) = 0 THEN -1
    ELSE CHOOSE i \in DOMAIN s : s[i] = c /\ \A j \in DOMAIN s : s[j] = c => j <= i

\* numbers.py _THOUSANDS_RE.sub("", s): a blank between two digits goes
RECURSIVE ThousandsFrom(_, _)
ThousandsFrom(s, i) ==
    IF i > Len(s) THEN <<>>
    ELSE (IF /\ s[i] = " " /\ i > 1 /\ i < Len(s)
             /\ IsDigit(s[i - 1]) /\ IsDigit(s[i + 1])
          THEN <<>> ELSE <<s[i]>>) \o ThousandsFrom(s, i + 1)

\* numbers.py normalize_numeric_string, lines 16-23
normalize_numeric_string(value) ==
    LET stripped == Strip(value)
        noCurrency == Remove(stripped, "$")
        noPercent == Remove(noCurrency, "%")
        noThousands == ThousandsFrom(noPercent, 1)
    IN  Remove(noThousands, " ")

\* Fault: of two separators the one occurring first is the decimal one.
DecimalCharFirst(normalized) ==
    LET first(c) == CHOOSE i \in DOMAIN normalized :
                        normalized[i] = c /\ \A j \in DOMAIN normalized :
                                                normalized[j] = c => j >= i
    IN  IF Count(normalized, ",") > 0 /\ Count(normalized, ".") > 0
        THEN (IF first(",") < first(".") THEN "," ELSE ".")
        ELSE IF Count(normalized, ",") > 0 THEN ","
        ELSE "."

\* numbers.py parse_number, lines 40-46: the decimal separator
DecimalChar(normalized) ==
    IF Count(normalized, ",") > 0 /\ Count(normalized, ".") > 0
    THEN (IF RFind(normalized, ",") > RFind(normalized, ".") THEN "," ELSE ".")
    ELSE IF Count(normalized, ",") > 0 THEN ","
    ELSE "."

\* what parse_number returns: None (nan), or the float
\* (-1)^neg * mantissa / 10^exponent
Number(nan, neg, mantissa, exponent) ==
    [nan |-> nan, neg |-> neg, mantissa |-> mantissa, exponent |-> exponent]

\* float(s) for s over digits, ".", "+" and "-": an optional sign, digits
\* with at most one point and at least one digit; anything else is a
\* ValueError, which parse_number turns into None (lines 61-64)
ToFloat(s, pct) ==
    LET signed == s # <<>> /\ Head(s) \in {"+", "-"}
        body == IF signed THEN Tail(s) ELSE s
        point == RFind(body, ".")
    IN  IF /\ \A i \in DOMAIN body : IsDigit(body[i]) \/ body[i] = "."
           /\ Count(body, ".") <= 1
           /\ \E i \in DOMAIN body : IsDigit(body[i])
        THEN Number(FALSE, signed /\ Head(s) = "-",
                    DigitsToInt(Remove(body, ".")),
                    (IF point = -1 THEN 0 ELSE Len(body) - point) + (IF pct THEN 2 ELSE 0))
        ELSE Number(TRUE, FALSE, 0, 0)

\* numbers.py parse_number, lines 26-66
parse_number(value) ==
    LET text == Strip(value)
        pct == text # <<>> /\ text[Len(text)] = "%"
        normalized == normalize_numeric_string(text)
        decimal_char == DecimalChar(normalized)
        noDots == Remove(normalized, ".")
        pointed == IF decimal_char = ","
                   THEN [i \in DOMAIN noDots |-> IF noDots[i] = "," THEN "." ELSE noDots[i]]
                   ELSE Remove(normalized, ",")
        numeric == SelectSeq(pointed, LAMBDA ch : IsDigit(ch) \/ ch \in {".", ",", "+", "-"})
    IN  IF text = <<>> \/ normalized = <<>> THEN Number(TRUE, FALSE, 0, 0)
        ELSE IF numeric \in {<<>>, <<".">>, <<"+">>, <<"-">>, <<"-", ".">>}
        THEN Number(TRUE, FALSE, 0, 0)
        ELSE ToFloat(numeric, pct)

MaxTextLen == 4

ParseNumber == Returns("parse_number", parse_number(fnIn.text))

\* the texts are made of two digits, the two separators, the signs, the
\* percent sign, a blank, a letter and a currency sign
NumberSpec ==
    /\ CallOf([fn : {"parse_number"},
               text : UNION {[1..n -> {"1", "2", ",", ".", "%", "-", "+", " ", "x", "$"}] :
                                n \in 0..MaxTextLen}])
    /\ [][ParseNumber]_vars

\* ------------------------------------------------------------------ dates
NoDate == [year |-> 0, month |-> 0, day |-> 0]
\* what a date function comes to: a timestamp, read from the digits or by
\* the general parser, not a date, or an exception
DateResult(kind, by, d) == [kind |-> kind, by |-> by, date |-> d]

\* dates.py _digits_only_to_iso, lines 68-83: the digits of the text, whatever
\* stands between them, read as day, month, year; NoDate stands for None
digits_only_to_iso(value) ==
    LET found == SelectSeq(value, IsDigit)
        digits == IF Len(found) = 7 THEN <<"0">> \o found ELSE found
    IN  IF Len(digits) # 8 THEN NoDate
        ELSE [year |-> DigitsToInt(SubSeq(digits, 5, 8)),
              month |-> DigitsToInt(SubSeq(digits, 3, 4)),
              day |-> DigitsToInt(SubSeq(digits, 1, 2))]

\* what datetime.fromisoformat and pd.to_datetime take for a date
IsCalendarDate(d) ==
    LET leap == d.year % 4 = 0 /\ (d.year % 100 # 0 \/ d.year % 400 = 0)
        days == IF d.month = 2 THEN (IF leap THEN 29 ELSE 28)
                ELSE IF d.month \in {4, 6, 9, 11} THEN 30 ELSE 31
    IN  d.year \in 1..9999 /\ d.month \in 1..12 /\ d.day \in 1..days

\* dates.py parse_date, lines 20-34: the digits are tried first, and
\* datetime.fromisoformat (line 29) stands outside the try; general is what
\* dateutil's parser makes of the text
parse_date(value, general) ==
    LET text == Strip(value)
        fromDigits == digits_only_to_iso(text)
    IN  IF text = <<>> THEN DateResult("not_a_date", "-", NoDate)
        ELSE IF fromDigits # NoDate
        THEN (IF IsCalendarDate(fromDigits) THEN DateResult("timestamp", "digits", fromDigits)
              ELSE DateResult("raises", "digits", NoDate))
        ELSE IF general THEN DateResult("timestamp", "parser", NoDate)
        ELSE DateResult("not_a_date", "-", NoDate)

\* dates.py coerce_date_series, lines 44-53, for one value of the series:
\* general is whether pd.to_datetime parsed it
coerce_date(value, general) ==
    LET text == Strip(value)
        fromDigits == digits_only_to_iso(text)
    IN  IF general /\ text # <<>> THEN DateResult("timestamp", "parser", NoDate)
        ELSE IF text # <<>> /\ fromDigits # NoDate /\ IsCalendarDate(fromDigits)
        THEN DateResult("timestamp", "digits", fromDigits)
        ELSE DateResult("not_a_date", "-", NoDate)

ParseDate == Returns("parse_date", parse_date(fnIn.text, fnIn.general))

CoerceDate == Returns("coerce_date", coerce_date(fnIn.text, fnIn.general))

\* the texts handed to the date functions: three groups of digits with or
\* without a separator between them, the empty text and a blank
DateSpec ==
    /\ CallOf([fn : {"parse_date", "coerce_date"},
               text : {a \o sep \o b \o sep \o c :
                          a \in {<<"3", "1">>, <<"0", "1">>, <<"1">>, <<"2", "0">>,
                                 <<"1", "2">>},
                          b \in {<<"0", "1">>, <<"0", "2">>, <<"2", "4">>, <<"3", "4">>},
                          c \in {<<"2", "0", "2", "4">>, <<"0", "1", "3", "1">>,
                                 <<"5", "6", "7", "8">>, <<"2", "4">>},
                          sep \in {<<>>, <<"-">>, <<"/">>, <<"x">>}}
                      \cup {<<>>, <<" ">>},
               general : BOOLEAN])
    /\ [][ParseDate \/ CoerceDate]_vars

\* ------------------------------------------------------- header detection
MaxCells == 2
MaxRows == 3
\* up to most rows of up to MaxCells cells; a cell is empty, blank, digits,
\* a word, or a word holding a keyword
SampleRows(most) ==
    UNION {[1..n -> UNION {[1..k -> {"", " ", "12", "abc", "date"}] : k \in 0..MaxCells}] :
              n \in 0..most}

\* str(cell).strip()
StripCell(cell) == IF cell = " " THEN "" ELSE cell

\* scores and confidences are fractions num/den of hundredths
Frac(num, den) == [num |-> num, den |-> den]
FracLess(a, b) == a.num * b.den < b.num * a.den

\* header_detect.py _heuristic_detect, lines 91-102: the score of a row
\* that has cells; "abc" and "date" hold letters, "date" holds a keyword
RowScore(row) ==
    LET non_empty == Cardinality({i \in DOMAIN row : StripCell(row[i]) # ""})
        alpha_cells == Cardinality({i \in DOMAIN row : row[i] \in {"abc", "date"}})
        keyword_hits == Cardinality({i \in DOMAIN row : row[i] = "date"})
    IN  IF non_empty = 0 THEN Frac(0, 1)
        ELSE Frac(45 * non_empty + 35 * alpha_cells
                     + Len(row) * (5 * keyword_hits + 2 * non_empty), Len(row))

\* Fault: a row as good as the best so far replaces it.
ScoreNotBelow(score, best) == ~FracLess(score, best)

\* header_detect.py line 103: score > best_score
ScoreAbove(score, best) == FracLess(best, score)

\* header_detect.py _heuristic_detect, lines 90-106: the loop from row idx
\* (counted from 0) on; rows without cells are passed over
RECURSIVE ScanRows(_, _, _)
ScanRows(rows, idx, best) ==
    IF idx >= Len(rows) THEN best
    ELSE LET row == rows[idx + 1] IN
         IF Len(row) = 0 THEN ScanRows(rows, idx + 1, best)
         ELSE IF ScoreAbove(RowScore(row), best.score)
         THEN ScanRows(rows, idx + 1,
                       [header_row |-> idx, score |-> RowScore(row),
                        columns |-> [i \in DOMAIN row |-> StripCell(row[i])]])
         ELSE ScanRows(rows, idx + 1, best)

\* header_detect.py _heuristic_detect, lines 84-112
heuristic_detect(rows) ==
    LET best == ScanRows(rows, 0, [header_row |-> 0, score |-> Frac(-100, 1), columns |-> <<>>])
    IN  [header_row |-> best.header_row, columns |-> best.columns, score |-> best.score,
         notes |-> (IF FracLess(best.score, Frac(30, 1))
                    THEN <<Note("low_heuristic_confidence_header", 0)>> ELSE <<>>)
                   \o <<Note("heuristic_header_row", best.header_row)>>]

LlmThreshold == 70
\* the predictor answered nothing
NoPrediction == [header_row |-> -1, columns |-> <<>>, confidence |-> -1]

\* Fault: the predictor is followed only above the threshold.
PredictorAboveThreshold(prediction) == prediction.confidence > LlmThreshold

\* header_detect.py line 61: llm_prediction.confidence >= llm_threshold
PredictorSelected(prediction) == prediction.confidence >= LlmThreshold

\* header_detect.py detect_header, lines 44-81; llm is "absent" without a
\* client, else prediction is what the client answers
detect_header(sample_rows, llm, prediction, max_rows) ==
    LET rows == SubSeq(sample_rows, 1, Min(max_rows, Len(sample_rows)))
        heuristic == heuristic_detect(rows)
        floored == IF FracLess(heuristic.score, Frac(20, 1)) THEN Frac(20, 1)
                   ELSE heuristic.score
        clamped == IF FracLess(Frac(95, 1), floored) THEN Frac(95, 1) ELSE floored
        answered == llm = "client" /\ prediction # NoPrediction
        scaled == Frac(8 * prediction.confidence, 10)
    IN  IF answered /\ PredictorSelected(prediction)
        THEN [header_row |-> prediction.header_row, columns |-> prediction.columns,
              confidence |-> Frac(prediction.confidence, 1),
              notes |-> heuristic.notes \o <<Note("llm_header_prediction_available", 0),
                                            Note("llm_header_selected", 0)>>,
              used_llm |-> TRUE]
        ELSE [header_row |-> heuristic.header_row, columns |-> heuristic.columns,
              confidence |-> IF answered /\ FracLess(clamped, scaled) THEN scaled
                             ELSE clamped,
              notes |-> heuristic.notes \o
                        (IF answered
                         THEN <<Note("llm_header_prediction_available", 0),
                                Note("llm_confidence_low_using_heuristic", 0)>>
                         ELSE <<>>),
              used_llm |-> FALSE]

HeuristicDetect == Returns("heuristic_detect", heuristic_detect(fnIn.rows))

DetectHeader ==
    Returns("detect_header",
            detect_header(fnIn.rows, fnIn.llm, fnIn.prediction, fnIn.max_rows))

\* the heuristic on its own, and detect_header without a client, with a
\* client that answers nothing, and with one that answers
HeaderSpec ==
    /\ CallOf([fn : {"heuristic_detect"}, rows : SampleRows(MaxRows), llm : {"absent"},
               prediction : {NoPrediction}, max_rows : {50}]
              \cup [fn : {"detect_header"}, rows : SampleRows(MaxRows - 1),
                    llm : {"absent", "client"},
                    prediction : [header_row : {0, 3}, columns : {<<"c1", "c2">>},
                                  confidence : {0, 50, 69, 70, 95, 100}]
                                 \cup {NoPrediction},
                    max_rows : {1, 50}])
    /\ [][HeuristicDetect \/ DetectHeader]_vars

\* ------------------------------------------- save_receipt, step by step
\* Two threads each carry one intake through its two saves, the queued
\* receipt and the final one, and may be scheduled between any two
\* statements of save_receipt. A file opened with mode "w" is emptied by the
\* open and holds its new content only after the write.
Tids == {1, 2}
\* a thread of the pool that runs the plain `def` endpoints delivery_detail
\* and list_deliveries_admin, beside the threads that save
Worker == 3

\* the receipt thread t is saving: the one of intake t in its present phase
ThreadReceipt(t) ==
    LET key == IF t = 1 THEN "k1" ELSE "k2" IN
    IF threads[t].phase = "queued"
    THEN Receipt(t, threads[t].client, NoPreset, key, "queued", TRUE, FALSE, 0, "f",
                 <<Note("queued", 0)>>, "none", {})
    ELSE Receipt(t, threads[t].client, NoPreset, key, threads[t].final, FALSE, FALSE,
                 0, "f", ParseNotes, "none", {})

\* what a step of save_receipt leaves alone, whatever it does to the store
StoreStepLeaves ==
    UNCHANGED <<config, pc, reqPath, lastResponse, nextId, clock, sources, jobs, parseRuns,
                exports, replays, authIn, authOut, fnIn, fnOut>>

\* Fault: the index is reached without waiting for the lock.
LockIgnored(t) == TRUE

\* webhook_store.py line 131, `with self._lock:`: no other thread is inside
LockFree(t) == lock = 0

\* pathlib write_text at lines 125-128 opens receipt.json with mode "w": the
\* file of this intake is there, under its client, and is empty
Truncated(receipt) ==
    [intake_id |-> receipt.intake_id, client_id |-> receipt.client_id, truncated |-> TRUE]

\* webhook_store.py save_receipt, lines 122-125: receipt.json is opened
OpenReceipt(t) ==
    /\ threads[t].pc = "idle"
    /\ receipts' = SavedReceipts(receipts, Truncated(ThreadReceipt(t)))
    /\ threads' = [threads EXCEPT ![t].pc = "body"]
    /\ UNCHANGED <<index, cache, lock>>
    /\ StoreStepLeaves

\* webhook_store.py save_receipt, lines 125-128: receipt.json is written
WriteReceipt(t) ==
    /\ threads[t].pc = "body"
    /\ receipts' = SavedReceipts(receipts, ThreadReceipt(t))
    /\ threads' = [threads EXCEPT ![t].pc = "acquire"]
    /\ UNCHANGED <<index, cache, lock>>
    /\ StoreStepLeaves

\* line 131: the lock is taken
AcquireLock(t) ==
    /\ threads[t].pc = "acquire"
    /\ LockFree(t)
    /\ lock' = t
    /\ threads' = [threads EXCEPT ![t].pc = "load"]
    /\ UNCHANGED <<receipts, index, cache>>
    /\ StoreStepLeaves

\* lines 132-133: the cache entry is set and the index is read
LoadIndex(t) ==
    /\ threads[t].pc = "load"
    /\ cache' = SavedCache(cache, ThreadReceipt(t), threads[t].client,
                           ThreadReceipt(t).idempotency_key)
    /\ threads' = [threads EXCEPT ![t].pc = "write", ![t].entries = index[threads[t].client]]
    /\ UNCHANGED <<receipts, index, lock>>
    /\ StoreStepLeaves

\* lines 134-169 and _write_index line 60: the entries read are updated in
\* memory and index.ndjson is opened with mode "w"
OpenIndex(t) ==
    /\ threads[t].pc = "write"
    /\ index' = [index EXCEPT ![threads[t].client] = <<>>]
    /\ threads' = [threads EXCEPT ![t].pc = "flush"]
    /\ UNCHANGED <<receipts, cache, lock>>
    /\ StoreStepLeaves

\* _write_index, lines 61-63: the updated entries are written
WriteIndex(t) ==
    /\ threads[t].pc = "flush"
    /\ index' = [index EXCEPT ![threads[t].client] =
                    UpsertIndex(threads[t].entries, ThreadReceipt(t),
                                ThreadReceipt(t).idempotency_key)]
    /\ threads' = [threads EXCEPT ![t].pc = "release",
                                  ![t].indexed = ThreadReceipt(t).status]
    /\ UNCHANGED <<receipts, cache, lock>>
    /\ StoreStepLeaves

\* the end of the with block: the lock is given back; after the queued
\* receipt the intake goes on to its final one
ReleaseLock(t) ==
    /\ threads[t].pc = "release"
    /\ lock' = IF lock = t THEN 0 ELSE lock
    /\ threads' = [threads EXCEPT ![t].pc = IF threads[t].phase = "queued" THEN "idle" ELSE "done",
                                  ![t].phase = "final"]
    /\ UNCHANGED <<receipts, index, cache>>
    /\ StoreStepLeaves

\* load_receipt answers None
NoReceipt == [found |-> FALSE]

\* app.py delivery_detail with ?client_id=, webhook_store.py load_receipt,
\* lines 68-76: the file is looked for and read, with no lock taken; text that
\* is not JSON is answered like a missing file
LoadReceipt ==
    LET call == threads[Worker] IN
    /\ call.pc = "idle" /\ call.op = "detail"
    /\ threads' = [threads EXCEPT ![Worker].pc = "done", ![Worker].got =
                      IF GetReceipt(call.id, call.client, receipts) = {}
                            \/ "truncated" \in DOMAIN receipts[call.id]
                      THEN NoReceipt
                      ELSE [found |-> TRUE, receipt |-> receipts[call.id]]]
    /\ UNCHANGED <<receipts, index, cache, lock>>
    /\ StoreStepLeaves

\* app.py list_deliveries_admin, webhook_store.py list_deliveries, lines
\* 179-213: the index file is read, with no lock taken, and the read entries
\* are sorted, filtered and cut
ListIndex ==
    LET call == threads[Worker] IN
    /\ call.pc = "idle" /\ call.op = "list"
    /\ threads' = [threads EXCEPT ![Worker].pc = "done", ![Worker].got =
                      [listed |-> ListDeliveriesOf(index[call.client], call.status)]]
    /\ UNCHANGED <<receipts, index, cache, lock>>
    /\ StoreStepLeaves

StoreNext ==
    \/ \E t \in Tids :
        \/ OpenReceipt(t)
        \/ WriteReceipt(t)
        \/ AcquireLock(t)
        \/ LoadIndex(t)
        \/ OpenIndex(t)
        \/ WriteIndex(t)
        \/ ReleaseLock(t)
    \/ LoadReceipt
    \/ ListIndex

\* each saving thread starts idle before its queued receipt, with the client
\* of its intake and the status its parse will end with; the worker starts
\* before its one call, a detail or a listing
StoreInit ==
    /\ config = [require_auth |-> FALSE, allowed_ips |-> {}, async_default |-> FALSE]
    /\ pc = [r \in Rids |-> "new"]
    /\ reqPath = [r \in Rids |-> [client |-> NoClient, preset |-> NoPreset]]
    /\ lastResponse = NoResp
    /\ nextId = 1
    /\ clock = 0
    /\ sources = <<>>
    /\ receipts = <<>>
    /\ index = [c \in StoreClients |-> <<>>]
    /\ cache = <<>>
    /\ jobs = {}
    /\ parseRuns = 0
    /\ exports = 0
    /\ replays = 0
    /\ authIn = NoAuthIn
    /\ authOut = "-"
    /\ fnIn = NoCall
    /\ fnOut = NoCall
    /\ \E saving \in [Tids -> [pc : {"idle"}, phase : {"queued"}, client : {"c1", "c2"},
                                 final : {"ok", "failed"}, entries : {<<>>}, indexed : {"-"}]],
          call \in [pc : {"idle"}, op : {"detail", "list"}, id : Tids, client : {"c1", "c2"},
                    status : {"none", "ok"}, got : {NoCall}] :
            threads = [t \in Tids \cup {Worker} |-> IF t = Worker THEN call ELSE saving[t]]
    /\ lock = 0

StoreSpec == StoreInit /\ [][StoreNext]_vars

\* ------------------------------------------------------------ rule matching
\* the rule files of one directory taken together
MaxRules == 2

\* str.lower(), on texts written as their characters
Lower(text) ==
    [i \in DOMAIN text |->
        CASE text[i] = "I" -> "i" [] text[i] = "N" -> "n" [] text[i] = "H" -> "h"
          [] text[i] = "A" -> "a" [] text[i] = "D" -> "d" [] OTHER -> text[i]]

\* `token in text` of two str
IsSubstring(token, text) ==
    \E i \in 0..(Len(text) - Len(token)) : SubSeq(text, i + 1, i + Len(token)) = token

\* rules_loader.py _score_rule, in tenths. payload holds the three lists of
\* payload["match"], each empty when absent; a source_hint of None and an
\* empty one are both <<>>.
score_rule(payload, filename, columns, source_hint) ==
    LET Matching(tokens, text) ==
            Len(SelectSeq(tokens, LAMBDA token :
                    token # <<>> /\ IsSubstring(Lower(token), Lower(text))))
        overlap ==
            Cardinality({Lower(columns[i]) : i \in DOMAIN columns}
                        \cap {Lower(payload.columns[i]) : i \in DOMAIN payload.columns})
    IN  6 * Matching(payload.filenames, filename)
        + (IF source_hint # <<>> THEN 6 * Matching(payload.hints, source_hint) ELSE 0)
        + Min(4, overlap)

\* rules_loader.py load_matching_rule. files are the *.json files of rules_dir
\* in the order glob yields them, each with its stem, whether it holds JSON,
\* and its payload; the answer is the stem of the selected rule and the notes.
load_matching_rule(exists, files, filename, columns, source_hint) ==
    LET ScoreOf(f) == score_rule(f.payload, filename, columns, source_hint)
        Candidate(f) == IF ScoreOf(f) > 0 THEN ScoreOf(f) ELSE 1
        invalid == [i \in 1..Len(SelectSeq(files, LAMBDA f : ~f.json)) |-> "rule_invalid_json"]
        candidates ==
            SelectSeq(files, LAMBDA f : f.json /\ (ScoreOf(f) > 0 \/ f.name = "default"))
        selected ==
            candidates[CHOOSE i \in DOMAIN candidates :
                          /\ \A j \in DOMAIN candidates :
                                Candidate(candidates[j]) <= Candidate(candidates[i])
                          /\ \A j \in 1..(i - 1) :
                                Candidate(candidates[j]) < Candidate(candidates[i])]
    IN  IF ~exists THEN [rule |-> "none", notes |-> <<"rules_directory_missing">>]
        ELSE IF candidates = <<>> THEN [rule |-> "none", notes |-> invalid]
        ELSE [rule |-> selected.name,
              notes |-> Append(invalid,
                               IF selected.name = "default" /\ Candidate(selected) < 5
                               THEN "default_rule_applied" ELSE "rule_selected")]

\* the calls of the matcher and of the scoring of one rule: match sections
\* with no, one or several tokens, and directories of up to MaxRules files
\* with different stems
RuleCalls ==
    LET payloads ==
            [filenames : {<<>>, << <<>> >>, << <<"i", "n">> >>,
                          << <<"I", "N">>, <<"n", "v">> >>, << <<"x">> >>},
             hints : {<<>>, << <<"h">> >>, << <<"h">>, <<"H">> >>},
             columns : {<<>>, << <<"a">> >>, << <<"a">>, <<"A">> >>, << <<"a">>, <<"b">> >>,
                        << <<"a">>, <<"b">>, <<"c">>, <<"d">>, <<"e">> >>}]
        files == [name : {"default", "r1", "r2", "r3"}, json : BOOLEAN,
                  payload : {p \in payloads :
                                p.hints = <<>> /\ p.columns \in {<<>>, << <<"a">> >>}}]
        directories ==
            {fs \in UNION {[1..n -> files] : n \in 0..MaxRules} :
                \A i \in DOMAIN fs, j \in DOMAIN fs : fs[i].name = fs[j].name => i = j}
    IN  [fn : {"score_rule"}, payload : payloads,
         filename : {<<"I", "n", "v">>, <<"o", "x">>},
         columns : {<<>>, << <<"A">> >>, << <<"a">>, <<"a">> >>,
                    << <<"a">>, <<"b">>, <<"c">>, <<"d">>, <<"e">> >>},
         source_hint : {<<>>, <<"h">>, <<"z">>}]
        \cup [fn : {"load_matching_rule"}, exists : BOOLEAN, files : directories,
              filename : {<<"I", "n", "v">>}, columns : {<< <<"A">> >>},
              source_hint : {<<>>}]

RulesSpec ==
    /\ CallOf(RuleCalls)
    /\ [][\/ Returns("score_rule",
                     score_rule(fnIn.payload, fnIn.filename, fnIn.columns, fnIn.source_hint))
          \/ Returns("load_matching_rule",
                     load_matching_rule(fnIn.exists, fnIn.files, fnIn.filename, fnIn.columns,
                                        fnIn.source_hint))]_vars

\* ----------------------------------------------------------- type inference
\* the values of one column
MaxValues == 4

\* normalize.py lines 15-16
DATE_HINTS ==
    << <<"d", "a", "t", "e">>, <<"d", "a", "t", "a">>, <<"i", "s", "s", "u", "e", "d">>,
       <<"i", "n", "v", "o", "i", "c", "e", "_", "d", "a", "t", "e">>,
       <<"c", "r", "e", "a", "t", "e", "d">>,
       <<"c", "r", "e", "a", "t", "e", "d", "_", "a", "t">> >>
NUMBER_HINTS ==
    << <<"a", "m", "o", "u", "n", "t">>, <<"t", "o", "t", "a", "l">>,
       <<"v", "a", "l", "o", "a", "r", "e">>, <<"p", "r", "i", "c", "e">>,
       <<"p", "r", "e", "t">>, <<"v", "a", "t">>, <<"t", "v", "a">>, <<"q", "t", "y">>,
       <<"q", "u", "a", "n", "t", "i", "t", "y">> >>

\* A value of a column, by what the conversions make of it: whether it is
\* empty once stripped, is a word of BOOLEAN_TRUE or BOOLEAN_FALSE, is
\* answered a number by parse_number, is answered a date by
\* coerce_date_series, and holds a comma and no point. "1" is a boolean and a
\* number, "20240131" a number and a date.
Values ==
    {[empty |-> TRUE, bool |-> FALSE, number |-> FALSE, date |-> FALSE, comma |-> FALSE],
     [empty |-> FALSE, bool |-> TRUE, number |-> FALSE, date |-> FALSE, comma |-> FALSE],
     [empty |-> FALSE, bool |-> TRUE, number |-> TRUE, date |-> FALSE, comma |-> FALSE],
     [empty |-> FALSE, bool |-> FALSE, number |-> TRUE, date |-> FALSE, comma |-> TRUE],
     [empty |-> FALSE, bool |-> FALSE, number |-> TRUE, date |-> TRUE, comma |-> FALSE],
     [empty |-> FALSE, bool |-> FALSE, number |-> FALSE, date |-> TRUE, comma |-> FALSE],
     [empty |-> FALSE, bool |-> FALSE, number |-> FALSE, date |-> FALSE, comma |-> FALSE]}

\* normalize.py _convert_series: the type label, the confidence as a fraction
\* and the notes of a column. Under a keyword of its name a column is tried
\* as date, then as number, and taken `if success:` (lines 161 and 169).
convert_series(series, column_name) ==
    LET Holding(P(_)) == Cardinality({i \in DOMAIN series : P(series[i])})
        non_empty_count == Holding(LAMBDA v : ~v.empty)
        bools == Holding(LAMBDA v : v.bool)
        numbers == Holding(LAMBDA v : v.number)
        dates == Holding(LAMBDA v : v.date)
        HasHint(hints) ==
            \E i \in DOMAIN hints : IsSubstring(hints[i], Lower(column_name))
        Floor(success, tenths) ==
            IF 10 * success >= tenths * non_empty_count
            THEN Frac(success, non_empty_count) ELSE Frac(tenths, 10)
        number_note ==
            IF \E i \in DOMAIN series : series[i].comma
            THEN "decimal_comma_normalized" ELSE "numbers_normalized"
        Typed(type, confidence, notes) ==
            [type |-> type, confidence |-> confidence, notes |-> notes]
    IN  IF non_empty_count = 0 THEN Typed("string", Frac(3, 10), <<>>)
        ELSE IF 10 * bools >= 7 * non_empty_count
        THEN Typed("boolean", Frac(bools, non_empty_count), <<"boolean_normalized">>)
        ELSE IF HasHint(DATE_HINTS) /\ dates > 0
        THEN Typed("date", Floor(dates, 7), <<"dates_normalized">>)
        ELSE IF HasHint(NUMBER_HINTS) /\ numbers > 0
        THEN Typed("number", Floor(numbers, 7), <<number_note>>)
        ELSE IF 10 * numbers >= 6 * non_empty_count
        THEN Typed("number", Frac(numbers, non_empty_count), <<number_note>>)
        ELSE IF 10 * dates >= 5 * non_empty_count \/ (HasHint(DATE_HINTS) /\ dates > 0)
        THEN Typed("date", Floor(dates, 5), <<"dates_normalized">>)
        ELSE Typed("string", Frac(5, 10), <<>>)

\* columns of up to MaxValues values under a name with a date keyword, an
\* amount keyword, both or none
TypeSpec ==
    /\ CallOf([fn : {"convert_series"},
               series : UNION {[1..n -> Values] : n \in 0..MaxValues},
               column_name : {<<"D", "a", "t", "a">>, <<"v", "a", "t">>,
                              <<"v", "a", "t", "_", "d", "a", "t", "e">>, <<"i", "d">>}])
    /\ [][Returns("convert_series", convert_series(fnIn.series, fnIn.column_name))]_vars

\* ------------------------------------------------------------ column names
\* the names of one table
MaxNames == 3

\* A name is written as the words its characters other than letters and
\* digits divide it into, <<"col", "2">> for "col_2"; an empty word stands
\* where two dividers meet or the name begins or ends with one.
\* text.py to_snake_case and normalize_column_name: the words are lowered, the
\* empty ones dropped and the rest joined by "_"; a name without words is
\* "column"
normalize_column_name(name) ==
    LET lowered == [i \in DOMAIN name |-> IF name[i] = "Col" THEN "col" ELSE name[i]]
        parts == SelectSeq(lowered, LAMBDA segment : segment # "")
    IN  IF parts = <<>> THEN <<"column">> ELSE parts

\* text.py dedupe_names: seen[base] is the number of earlier names equal to
\* base; a repeated name is followed by "_" and that number plus one
dedupe_names(names) ==
    [i \in DOMAIN names |->
        LET base == IF names[i] = <<>> THEN <<"column">> ELSE names[i]
            count == Cardinality({j \in 1..(i - 1) :
                        (IF names[j] = <<>> THEN <<"column">> ELSE names[j]) = base})
        IN  IF count = 0 THEN base
            ELSE Append(base, CASE count + 1 = 2 -> "2" [] count + 1 = 3 -> "3"
                                [] OTHER -> "4")]

\* normalize.py _clean_columns: the cleaned names and the notes
clean_columns(columns) ==
    LET normalized == [i \in DOMAIN columns |-> normalize_column_name(columns[i])]
        deduped == dedupe_names(normalized)
    IN  [columns |-> deduped,
         notes |-> (IF deduped # normalized THEN <<"columns_deduped">> ELSE <<>>)
                   \o (IF \E i \in DOMAIN columns : deduped[i] # columns[i]
                       THEN <<"columns_normalized">> ELSE <<>>)]

\* tables of up to MaxNames columns whose names have up to two words
NamesSpec ==
    /\ CallOf([fn : {"clean_columns"},
               columns : UNION {[1..n -> UNION {[1..k -> {"Col", "col", "2", ""}] : k \in 0..2}] :
                                   n \in 0..MaxNames}])
    /\ [][Returns("clean_columns", clean_columns(fnIn.columns))]_vars

\* ================================================================ claims
\* the receipts stored under a client and an idempotency key
StoredUnder(client, key) ==
    {id \in DOMAIN receipts :
        receipts[id].client_id = client /\ receipts[id].idempotency_key = key}

\* the sync value the request carries parses as a boolean where it is read
WellFormedSync(p) ==
    \/ p.syncQ \in {"true", "false"}
    \/ p.syncQ = "none" /\ p.syncOpt \in {"none", "true", "false"}

\* request r, handled with payload p, meets a stored receipt of its client and
\* key: the response is that receipt with duplicate set, and no id is taken
DuplicateReturned(r, p) ==
    LET stored == StoredUnder(EffectiveClient(p, reqPath[r].client),
                              IdempotencyKeyOf(p, reqPath[r].client))
    IN  stored # {} =>
          /\ \E id \in stored :
               lastResponse' = ReceiptResp("intake", [receipts[id] EXCEPT !.duplicate = TRUE])
          /\ nextId' = nextId
          /\ receipts' = receipts

\* C1, as stated: whenever the store holds a receipt under the request's
\* (effective client, idempotency key), webhook_intake returns that receipt
\* with only duplicate changed and assigns no new intake id, whatever option
\* values the request carries.
C1_DuplicateWhateverOptions ==
    [][\A r \in Rids, p \in Payloads :
         (HandleWith(r, p) /\ ValidatePayload(p) = "ok") => DuplicateReturned(r, p)]_vars

\* C1, amended: the same, for every request whose sync value is well formed;
\* adapter, header_row and the other options may be anything.
C1_DuplicateWellFormedSync ==
    [][\A r \in Rids, p \in Payloads :
         (HandleWith(r, p) /\ ValidatePayload(p) = "ok" /\ WellFormedSync(p))
            => DuplicateReturned(r, p)]_vars

\* C1: a duplicate of a finished intake has been answered, one id assigned
C1_Witness ==
    /\ nextId = 2
    /\ lastResponse.kind = "intake"
    /\ \E rc \in lastResponse.receipt : rc.duplicate /\ rc.status \in TerminalStatuses

\* a key _generate_idempotency_key derived from the bytes
DerivedKey(key) == key.prefix # "-" /\ key.suffix = ""

\* C2, as stated: when the same file bytes are submitted again for the same
\* client with synchronous execution, the second request runs no
\* normalization and no export, stores no source, and leaves the receipts
\* and the index as they were.
C2_SameBytesTwice ==
    [][\A r \in Rids, p \in Payloads :
         ( /\ HandleWith(r, p)
           /\ ValidatePayload(p) = "ok"
           /\ p.headerKey = NoKey
           /\ ResolveSyncFlag(p.syncQ, p.syncOpt, config) = "sync"
           /\ \E id \in DOMAIN receipts :
                /\ receipts[id].client_id = EffectiveClient(p, reqPath[r].client)
                /\ receipts[id].filename = p.file
                /\ receipts[id].sync
                /\ DerivedKey(receipts[id].idempotency_key) )
         => /\ parseRuns' = parseRuns
            /\ exports' = exports
            /\ sources' = sources
            /\ receipts' = receipts
            /\ index' = index]_vars

\* the intake ids webhook_intake created under a client and a key
OneIntakePerKey ==
    \A a \in DOMAIN receipts, b \in DOMAIN receipts :
        ( /\ receipts[a].client_id = receipts[b].client_id
          /\ receipts[a].idempotency_key = receipts[b].idempotency_key
          /\ receipts[a].idempotency_key.suffix = "" )
        => a = b

\* an asynchronous request is answered with a queued receipt: the one its
\* key already has while that one's job is pending, else a new one
QueuedOnce(r, p) ==
    LET client == EffectiveClient(p, reqPath[r].client)
        key == IdempotencyKeyOf(p, reqPath[r].client)
        pending == {job \in jobs : job.client_id = client /\ job.idempotency_key = key}
    IN  /\ pending # {} =>
              /\ nextId' = nextId
              /\ \E job \in pending, rc \in lastResponse'.receipt :
                    rc.intake_id = job.intake_id /\ rc.status = "queued" /\ rc.duplicate
        /\ StoredUnder(client, key) = {} =>
              /\ nextId' = nextId + 1
              /\ \E rc \in lastResponse'.receipt :
                    rc.intake_id = nextId /\ rc.status = "queued" /\ ~rc.duplicate

\* C3: of two asynchronous requests with the same (client, idempotency key),
\* the second handled before the first one's job has run, both are answered
\* with the same intake id and status queued, and the key never has two ids.
C3_OneQueuedIntake ==
    /\ []OneIntakePerKey
    /\ [][\A r \in Rids, p \in Payloads :
            ( /\ HandleWith(r, p)
              /\ ValidatePayload(p) = "ok"
              /\ ResolveSyncFlag(p.syncQ, p.syncOpt, config) = "async" )
            => QueuedOnce(r, p)]_vars

\* C3: the second request has been answered while the job is pending
C3_Witness ==
    /\ jobs # {}
    /\ \A r \in Rids : pc[r] = "done"
    /\ \E rc \in lastResponse.receipt :
          rc.duplicate /\ rc.status = "queued" /\ rc.intake_id = 1 /\ nextId = 2

\* C4: a receipt is never removed; its status changes only from queued to a
\* terminal status, so at most once; a synchronous receipt is written once;
\* and no step (duplicate, replay, listing, detail) changes a terminal one.
C4_StatusChangesOnce ==
    [][\A id \in DOMAIN receipts :
         /\ id \in DOMAIN receipts'
         /\ receipts'[id].status # receipts[id].status
               => /\ receipts[id].status = "queued"
                  /\ receipts'[id].status \in TerminalStatuses
         /\ receipts[id].status \in TerminalStatuses => receipts'[id] = receipts[id]
         /\ receipts[id].sync => receipts'[id] = receipts[id]]_vars

\* C4: a detail lookup answered with an asynchronous receipt that is terminal
C4_Witness ==
    /\ lastResponse.kind = "detail"
    /\ \E rc \in lastResponse.receipt : ~rc.sync /\ rc.status \in TerminalStatuses

Queued(id) == id \in DOMAIN receipts /\ receipts[id].status = "queued"
Terminal(id) == id \in DOMAIN receipts /\ receipts[id].status \in TerminalStatuses

\* what the background job leaves: a queued receipt has its job pending, a
\* failed one carries processing = false and the error in its notes, any
\* other carries the pipeline's status and response
JobOutcomeRecorded ==
    \A id \in DOMAIN receipts :
        LET rc == receipts[id]
        IN  /\ rc.status = "queued" <=> \E job \in jobs : job.intake_id = id
            /\ rc.status = "queued" => rc.processing /\ ~rc.sync
            /\ rc.status = "failed" =>
                  /\ ~rc.processing
                  /\ rc.parse = "none"
                  /\ \E i \in 1..Len(rc.notes) : rc.notes[i].tag = "error"
            /\ rc.status \in TerminalStatuses \ {"failed"} =>
                  ~rc.processing /\ rc.parse = rc.status /\ rc.status = StatusOf(rc.filename)

\* a job is added only for an intake id that has no receipt yet
NeverRerun ==
    \A job \in jobs' \ jobs : job.intake_id \notin DOMAIN receipts

\* C5: under fair scheduling of the background job every queued receipt
\* becomes terminal under its intake id, with the pipeline's outcome, or with
\* status failed, processing = false and the error in notes when the pipeline
\* raised; and no job is ever added for an intake that already has a receipt.
C5_QueuedBecomesTerminal ==
    /\ \A id \in Ids : Queued(id) ~> Terminal(id)
    /\ []JobOutcomeRecorded
    /\ [][NeverRerun]_vars

\* C5: an asynchronous intake has failed and nothing is left to run
C5_Witness ==
    /\ jobs = {}
    /\ \E id \in DOMAIN receipts : receipts[id].status = "failed" /\ ~receipts[id].sync

\* C6, as stated: a replay of an intake whose source artifact exists stores a
\* synchronous receipt under a fresh intake id, with the original's client id
\* and a note replay_of=<original id>; a replay of an unknown intake or of
\* one whose source is missing answers not-found.
C6_ReplayStoresReceipt ==
    [][\A id \in Ids, clientQ \in AdminClients, ov \in ReplayOverrides, present \in BOOLEAN :
         ReplayWith(id, clientQ, ov, present) =>
            IF GetReceipt(id, clientQ, receipts) # {} /\ id \in DOMAIN sources /\ present
            THEN /\ nextId # id
                 /\ nextId \notin DOMAIN receipts
                 /\ nextId \in DOMAIN receipts'
                 /\ receipts'[nextId].sync
                 /\ receipts'[nextId].client_id = receipts[id].client_id
                 /\ receipts'[nextId].notes[1] = Note("replay_of", id)
            ELSE lastResponse'.code = 404 /\ receipts' = receipts]_vars

\* the credentials of the request _authorize_webhook is applied to
ValidBearer == authIn.bearer \in ApiKeys
ValidHmac ==
    /\ authIn.sig.kind = "sha256"
    /\ authIn.sig.body = "body"
    /\ authIn.sig.secret =
          (IF authIn.client \in HmacSecretClients THEN HmacSecretOf(authIn.client)
           ELSE HmacSecretOf(DefaultClient))
    /\ authIn.ts.kind = "int"
    /\ Abs(authIn.ts.offset) <= ClockSkewSeconds

\* C7, as stated: when authentication is required, a request from an allowed
\* address is authorized if and only if its bearer token is a configured API
\* key or its HMAC signature and timestamp are valid; either is sufficient,
\* whatever the other's headers contain.
C7_EitherCredentialSuffices ==
    (authOut # "-" /\ config.require_auth /\ VerifyIpAllowlist(authIn.ip, config))
        => (authOut = "authorized" <=> (ValidBearer \/ ValidHmac))

\* C8: a request from an address outside the allow-list, or without a valid
\* credential where one is required, is answered 403 or 401 and no source,
\* receipt, index entry, cache entry, job or intake id comes of it; an
\* address outside the allow-list is answered ip_not_allowed whatever its
\* credentials are.
C8_RejectedBeforeState ==
    [][\A r \in Rids, cred \in Credentials, path \in Paths :
         AuthorizeWith(r, cred, path) =>
            LET allowed == config.allowed_ips = {} \/ cred.ip \in config.allowed_ips
                credible ==
                    \/ ~config.require_auth
                    \/ cred.bearer \in ApiKeys
                    \/ /\ cred.sig = Sha256Sig(HmacSecretOf(IF path.client \in HmacSecretClients
                                                             THEN path.client
                                                             ELSE DefaultClient), "body")
                       /\ cred.ts.kind = "int"
                       /\ Abs(cred.ts.offset) <= ClockSkewSeconds
            IN  /\ ~allowed => lastResponse' = ErrorResp("intake", 403, "ip_not_allowed")
                /\ (allowed /\ ~credible) => lastResponse'.code = 401
                /\ lastResponse'.code \in {401, 403} =>
                      /\ pc'[r] = "done"
                      /\ UNCHANGED <<sources, receipts, index, cache, jobs, nextId,
                                     parseRuns, exports>>]_vars
    /\ [][\A r \in Rids : (pc[r] = "done" => pc'[r] = "done")]_vars

\* C8: a request was refused for its address after an intake had been stored
C8_Witness ==
    /\ lastResponse = ErrorResp("intake", 403, "ip_not_allowed")
    /\ DOMAIN receipts # {}
    /\ config.require_auth

\* C9, as stated: an intake answered with a validation error (400) leaves no
\* source, receipt or index entry behind.
C9_InvalidBeforeState ==
    [][\A r \in Rids, p \in Payloads :
         (HandleWith(r, p) /\ lastResponse'.code = 400)
            => UNCHANGED <<sources, receipts, index>>]_vars

\* the intake ids of a client's index, in file order
IndexIds(client) == [i \in 1..Len(index[client]) |-> index[client][i].intake_id]

\* each client's index holds one entry per intake id saved for the client
OneEntryPerIntake ==
    \A client \in StoreClients :
        /\ \A i, j \in 1..Len(index[client]) :
              IndexIds(client)[i] = IndexIds(client)[j] => i = j
        /\ {IndexIds(client)[i] : i \in 1..Len(index[client])}
              = {id \in DOMAIN receipts : receipts[id].client_id = client}
        /\ \A i \in 1..Len(index[client]) :
              index[client][i].status = receipts[IndexIds(client)[i]].status

\* a save leaves every entry where it is, and adds one only for a new id
UpdatedInPlace ==
    \A client \in StoreClients :
        /\ Len(index'[client]) >= Len(index[client])
        /\ \A i \in 1..Len(index[client]) :
              index'[client][i].intake_id = index[client][i].intake_id
        /\ Len(index'[client]) > Len(index[client]) =>
              /\ Len(index'[client]) = Len(index[client]) + 1
              /\ index'[client][Len(index'[client])].intake_id \notin DOMAIN receipts

\* C10: after any saves, each client's index holds exactly one entry per
\* intake id saved for the client; saving an indexed id rewrites its entry
\* where it is and leaves the number of entries as it was.
C10_OneEntryPerIntake ==
    /\ []OneEntryPerIntake
    /\ [][UpdatedInPlace]_vars

\* C10: a queued entry was overwritten by its terminal one, in an index of two
C10_Witness ==
    \E client \in StoreClients :
        /\ Len(index[client]) = 2
        /\ index[client][1].status \in TerminalStatuses
        /\ ~receipts[index[client][1].intake_id].sync

\* a request for a client under whose key nothing is stored is no duplicate:
\* it takes the next intake id, its source is stored for its client, and the
\* receipt it is answered with is stored under that id for that client
OwnIntake(r, p) ==
    LET client == EffectiveClient(p, reqPath[r].client)
        key == IdempotencyKeyOf(p, reqPath[r].client)
    IN  /\ \A rc \in lastResponse'.receipt :
              rc.duplicate => rc.client_id = client /\ rc.idempotency_key = key
        /\ StoredUnder(client, key) = {} =>
              /\ nextId' = nextId + 1
              /\ nextId \in DOMAIN sources' /\ sources'[nextId].client = client
              /\ \A rc \in lastResponse'.receipt :
                    /\ ~rc.duplicate
                    /\ rc.intake_id = nextId /\ rc.client_id = client
                    /\ nextId \in DOMAIN receipts' /\ receipts'[nextId] = rc

SyncOrQueued(r, p) ==
    LET client == EffectiveClient(p, reqPath[r].client)
        key == IdempotencyKeyOf(p, reqPath[r].client)
        explicit == IF p.syncQ # "none" THEN p.syncQ ELSE p.syncOpt
        sync == explicit = "true" \/ (explicit = "none" /\ ~config.async_default)
    IN  StoredUnder(client, key) = {} =>
          IF sync
          THEN /\ parseRuns' = parseRuns + 1
               /\ jobs' = jobs
               /\ \E rc \in lastResponse'.receipt :
                     /\ rc.status \in TerminalStatuses /\ ~rc.processing /\ rc.sync
                     /\ nextId \in DOMAIN receipts' /\ receipts'[nextId] = rc
          ELSE /\ parseRuns' = parseRuns
               /\ \E rc \in lastResponse'.receipt :
                     /\ rc.status = "queued" /\ rc.processing /\ ~rc.sync
                     /\ nextId \in DOMAIN receipts' /\ receipts'[nextId] = rc
                     /\ \E job \in jobs' \ jobs : job.intake_id = nextId

\* C12, as stated: a new intake runs synchronously exactly when the explicit
\* sync flag is true, or none is given and the default is synchronous; it then
\* returns a terminal receipt with processing = false that is stored; every
\* other new intake stores and returns a queued receipt with processing =
\* true before the pipeline runs.
C12_SyncOrQueued ==
    [][\A r \in Rids, p \in Payloads :
         (HandleWith(r, p) /\ ValidatePayload(p) = "ok" /\ WellFormedSync(p))
            => SyncOrQueued(r, p)]_vars

\* the mean of the column confidences, in exact arithmetic, against 0.65,
\* and the mean of header confidence and column mean against 0.6
MeanAbove == SumSeq(fnIn.confs) > 65 * Max(Len(fnIn.confs), 1)
MeanBelow == SumSeq(fnIn.confs) < 65 * Max(Len(fnIn.confs), 1)
BlendAbove ==
    fnIn.hconf * Max(Len(fnIn.confs), 1) + SumSeq(fnIn.confs) > 120 * Max(Len(fnIn.confs), 1)
BlendBelow ==
    fnIn.hconf * Max(Len(fnIn.confs), 1) + SumSeq(fnIn.confs) < 120 * Max(Len(fnIn.confs), 1)

StageRaises ==
    \/ ~fnIn.loads
    \/ fnIn.headerRow = "out_of_range"
    \/ fnIn.headerRow = "none" /\ fnIn.predictor = "raises"
    \/ ~fnIn.normalizes
    \/ ~fnIn.dryRun /\ fnIn.adapter \in {"sheets", "json"}
          /\ fnIn.adapterRun \in {"fails", "client_fails"}
    \/ ~fnIn.dryRun /\ fnIn.adapter = "bigquery" /\ fnIn.adapterRun = "client_fails"

IsFallback(resp) ==
    /\ resp.code = 200
    /\ resp.status = "parsed_with_low_confidence"
    /\ resp.confidence = [num |-> 20, den |-> 1]
    /\ resp.data = "empty"
    /\ resp.note # "-"
    /\ resp.adapters = NoAdapter

\* C13: parse_file answers every upload with a response, never with an
\* error; when loading, header detection, normalization or export raises,
\* the response is the minimal one: parsed_with_low_confidence, confidence
\* 0.2, no data, and a note with the error text.
C13_FallbackNotError ==
    (fnIn.fn = "parse_file" /\ fnOut # NoCall) =>
        /\ fnOut.value.code = 200
        /\ (fnIn.size # "ok" \/ StageRaises) => IsFallback(fnOut.value)

\* C13: an upload whose normalization raised has been answered
C13_Witness ==
    /\ fnIn.fn = "parse_file" /\ fnOut # NoCall
    /\ fnIn.size = "ok" /\ fnIn.loads /\ fnIn.headerRow = "none" /\ fnIn.predictor = "off"
    /\ ~fnIn.normalizes
    /\ fnOut.value = FallbackResponse("normalize_table")

\* C14: a failure of an export adapter or of the predictor never aborts the
\* parse or changes its status: when loading and normalization went through,
\* the response carries the rows and the status computed from the
\* confidences, and the failure shows only as a skipped or error adapter
\* result or as an absent prediction.
C14_FailuresIsolated ==
    (/\ fnIn.fn = "parse_file" /\ fnOut # NoCall
     /\ fnIn.size = "ok" /\ fnIn.loads /\ fnIn.normalizes /\ fnIn.headerRow # "out_of_range")
    => /\ fnOut.value.data = "rows"
       /\ fnOut.value.status =
             ResponseStatus(HeaderConfidenceOf(fnIn), fnIn.confs, fnIn.rule)
       /\ fnOut.value.adapters.status \in {"-", "ok", "skipped", "error"}

\* the separator the text of fnIn is read with: of "," and "." the one
\* occurring later when both occur, "," when only it occurs, else "."
LaterSeparator ==
    LET t == fnIn.text
        commas == {i \in DOMAIN t : t[i] = ","}
        points == {i \in DOMAIN t : t[i] = "."}
    IN  IF commas # {} /\ points # {}
        THEN (IF \E i \in commas : \A j \in points : j < i THEN "," ELSE ".")
        ELSE IF commas # {} THEN "," ELSE "."

\* the digits of the text, and those after its decimal separator
DigitsIn(t) == SelectSeq(t, IsDigit)
DecimalsOf(t, sep) ==
    IF \E i \in DOMAIN t : t[i] = sep
    THEN Len(DigitsIn(SubSeq(t, 1 + CHOOSE i \in DOMAIN t :
                                      t[i] = sep /\ \A j \in DOMAIN t : t[j] = sep => j <= i,
                             Len(t))))
    ELSE 0
EndsWithPercent(t) == \E i \in DOMAIN t : t[i] = "%" /\ \A j \in (i + 1)..Len(t) : t[j] = " "

\* C16: a number parse_number returns is made of all the digits of the
\* text, the ones after the decimal separator being its decimals; the
\* separator is the later of "," and "." if both occur, "," if only it
\* occurs, else "."; a trailing % divides by 100; text without a digit
\* (empty, a bare ".", "+" or "-") is not a number.
C16_DecimalSeparator ==
    (fnIn.fn = "parse_number" /\ fnOut # NoCall) =>
        /\ DigitsIn(fnIn.text) = <<>> => fnOut.value.nan
        /\ ~fnOut.value.nan =>
              /\ fnOut.value.mantissa = DigitsToInt(DigitsIn(fnIn.text))
              /\ fnOut.value.exponent =
                    DecimalsOf(fnIn.text, LaterSeparator)
                    + (IF EndsWithPercent(fnIn.text) THEN 2 ELSE 0)

\* C16: a text with "." before "," was read with "," as its decimal separator
C16_Witness ==
    /\ fnIn.fn = "parse_number" /\ fnOut # NoCall
    /\ fnIn.text = <<".", "1", ",", "2">>
    /\ fnOut.value = Number(FALSE, FALSE, 12, 1)

\* C17: the date functions return a timestamp or not-a-date for every text
\* and never raise; a date read from the digits comes only from a text of
\* exactly 7 or 8 digits and nothing else, read as day, month, year after
\* padding 7 digits to 8; the empty text is not a date.
C17_DateOrNotADate ==
    (fnIn.fn \in {"parse_date", "coerce_date"} /\ fnOut # NoCall) =>
        /\ fnOut.value.kind \in {"timestamp", "not_a_date"}
        /\ fnOut.value.by = "digits" =>
              /\ \A i \in DOMAIN fnIn.text : IsDigit(fnIn.text[i])
              /\ Len(fnIn.text) \in {7, 8}
        /\ fnIn.text = <<>> => fnOut.value.kind = "not_a_date"

\* the score the claim gives row i of fnIn.rows: 0 without a non-empty cell
ClaimedScore(i) == IF Len(fnIn.rows[i]) = 0 THEN Frac(0, 1) ELSE RowScore(fnIn.rows[i])
\* the first of the rows in among that attains the maximum score, from 0
FirstMaximum(among) ==
    (CHOOSE i \in among :
        /\ \A j \in among : ~FracLess(ClaimedScore(i), ClaimedScore(j))
        /\ \A j \in among : j < i => FracLess(ClaimedScore(j), ClaimedScore(i))) - 1
RowsWithCells == {i \in DOMAIN fnIn.rows : Len(fnIn.rows[i]) > 0}
NamesRow(header) ==
    header.notes[Len(header.notes)] = Note("heuristic_header_row", header.header_row)

\* C18, as stated: the heuristic returns the index of the first row that
\* attains the maximum score among the sampled rows, a row with no non-empty
\* cell scoring 0, and a note names the index.
C18_FirstMaximumOfAllRows ==
    (fnIn.fn = "heuristic_detect" /\ fnOut # NoCall /\ fnIn.rows # <<>>) =>
        /\ fnOut.value.header_row = FirstMaximum(DOMAIN fnIn.rows)
        /\ NamesRow(fnOut.value)

\* C18, amended: the heuristic returns the index of the first row that
\* attains the maximum score among the sampled rows that have cells, a row
\* whose cells are all empty scoring 0, and index 0 when no sampled row has
\* a cell; so all-empty rows followed by a dense textual row select the dense
\* row; a note heuristic_header_row names the index.
C18_FirstMaximumOfRowsWithCells ==
    (fnIn.fn = "heuristic_detect" /\ fnOut # NoCall) =>
        /\ fnOut.value.header_row =
              (IF RowsWithCells = {} THEN 0 ELSE FirstMaximum(RowsWithCells))
        /\ NamesRow(fnOut.value)

\* C18: an all-empty row, a dense textual row and an all-empty row gave row 1
C18_Witness ==
    /\ fnIn.fn = "heuristic_detect" /\ fnOut # NoCall
    /\ fnIn.rows = << <<"", "">>, <<"date", "abc">>, <<"", "">> >>
    /\ fnOut.value.header_row = 1
    /\ NamesRow(fnOut.value)

InsideIndexUpdate(t) == threads[t].pc \in {"load", "write", "flush", "release"}
\* a save has opened the index of this client and not yet written it
Rewriting(client) ==
    \E u \in Tids : threads[u].client = client /\ threads[u].pc = "flush"
\* the index of the client of thread t shows its intake once, with status
ShowsStatus(t, status) ==
    LET entries == index[threads[t].client]
    IN  /\ Cardinality({i \in DOMAIN entries : entries[i].intake_id = t}) = 1
        /\ \E i \in DOMAIN entries : entries[i].intake_id = t /\ entries[i].status = status

\* C20: the load-modify-rewrite of the index by one save_receipt never
\* interleaves with another's, and no index update is lost: what a save has
\* written for its intake stays in the index, so after both intakes finish
\* the index holds both entries, each with its final status. While a save
\* is writing the file the entries are in its memory, not in the file.
C20_NoLostIndexUpdate ==
    /\ \A t \in Tids, u \in Tids : (InsideIndexUpdate(t) /\ InsideIndexUpdate(u)) => t = u
    /\ \A t \in Tids : (threads[t].indexed # "-" /\ ~Rewriting(threads[t].client))
                            => ShowsStatus(t, threads[t].indexed)
    /\ \A t \in Tids : (threads[t].pc = "done" /\ ~Rewriting(threads[t].client))
                            => ShowsStatus(t, threads[t].final)

\* C20: two intakes of one client, saved step by step side by side, are
\* done, and the index holds both with their final statuses
C20_Witness ==
    /\ threads[1].client = threads[2].client
    /\ threads[1].final # threads[2].final
    /\ threads[1].pc = "done" /\ threads[2].pc = "done"
    /\ Len(index[threads[1].client]) = 2
    /\ ShowsStatus(1, threads[1].final) /\ ShowsStatus(2, threads[2].final)

\* a complete receipt of intake id has been written at least once
WrittenOnce(id) == threads[id].phase = "final" \/ threads[id].pc \notin {"idle", "body"}

\* C21: a detail request that runs beside the saves of an intake, once a
\* complete receipt of it has been written, is answered with a complete
\* receipt, the queued one or the final one, and never finds the file
\* partly written.
C21_ReaderSeesWholeReceipt ==
    [][LoadReceipt =>
         LET call == threads[Worker]
             got == threads'[Worker].got
         IN  (threads[call.id].client = call.client /\ WrittenOnce(call.id))
                => /\ got.found
                   /\ got.receipt.intake_id = call.id
                   /\ got.receipt.status \in {"queued", threads[call.id].final}]_vars

\* C30: a listing that runs beside a save_receipt of its client returns
\* every entry the index held when that save read it: with no filter all of
\* them, with a status filter those of that status that the save leaves as
\* they are.
C30_ListingSeesEarlierEntries ==
    [][ListIndex =>
         LET call == threads[Worker]
             listed == threads'[Worker].got.listed
         IN  \A t \in Tids :
                (threads[t].client = call.client /\ threads[t].pc \in {"write", "flush"})
                => \A i \in DOMAIN threads[t].entries :
                      LET e == threads[t].entries[i] IN
                      (call.status = "none" \/ (e.status = call.status /\ e.intake_id # t))
                      => \E j \in DOMAIN listed : listed[j] = e.intake_id]_vars

\* some token of the list, lowered, is inside the text, lowered
AnyTokenIn(tokens, text) ==
    \E i \in DOMAIN tokens : IsSubstring(Lower(tokens[i]), Lower(text))

\* C22: the score of a rule is 0.6 if at least one of its filename tokens is
\* inside the filename, plus 0.6 if at least one of its hint tokens is inside
\* the hint, plus min(0.4, 0.1 times the number of its expected columns found
\* among the detected columns); in tenths.
C22_ScoreOfRule ==
    (fnOut.fn = "score_rule") =>
        fnOut.value =
            (IF AnyTokenIn(fnIn.payload.filenames, fnIn.filename) THEN 6 ELSE 0)
            + (IF AnyTokenIn(fnIn.payload.hints, fnIn.source_hint) THEN 6 ELSE 0)
            + Min(4, Cardinality({i \in DOMAIN fnIn.payload.columns :
                        \E j \in DOMAIN fnIn.columns :
                            Lower(fnIn.columns[j]) = Lower(fnIn.payload.columns[i])}))

\* C23: load_matching_rule returns the rule with the greatest positive
\* score; the rule named default is returned in place of one only when no
\* rule scores positively; and no rule is returned when the rules directory
\* is absent or empty, or nothing scores positively and no default exists.
C23_RuleSelection ==
    (fnOut.fn = "load_matching_rule") =>
        LET files == fnIn.files
            ScoreOf(i) == score_rule(files[i].payload, fnIn.filename, fnIn.columns,
                                     fnIn.source_hint)
            positive == {i \in DOMAIN files : files[i].json /\ ScoreOf(i) > 0}
            default == \E i \in DOMAIN files : files[i].json /\ files[i].name = "default"
            rule == fnOut.value.rule
        IN  /\ (fnIn.exists /\ positive # {})
                => \E i \in positive : /\ files[i].name = rule
                                       /\ \A j \in positive : ScoreOf(j) <= ScoreOf(i)
            /\ (fnIn.exists /\ positive = {} /\ default) => rule = "default"
            /\ (~fnIn.exists \/ (positive = {} /\ ~default)) => rule = "none"

\* the column's name, lowered, holds one of the keywords
NameHolds(hints) ==
    \E i \in DOMAIN hints : IsSubstring(hints[i], Lower(fnIn.column_name))
\* how many of the column's values are not empty, are booleans, numbers, dates
CountOf(kind) ==
    Cardinality({i \in DOMAIN fnIn.series :
                    CASE kind = "non_empty" -> ~fnIn.series[i].empty
                      [] kind = "bool" -> fnIn.series[i].bool
                      [] kind = "number" -> fnIn.series[i].number
                      [] OTHER -> fnIn.series[i].date})
\* at least tenths/10 of the values that are not empty are of the kind
AtLeast(kind, tenths) == 10 * CountOf(kind) >= tenths * CountOf("non_empty")

\* C24: a column with values that is not accepted as boolean is typed in the
\* fixed order: date under a date keyword at 50% dates, number under an
\* amount keyword at 70% numbers, number at 60% numbers, date at 50% dates or
\* under a date keyword with one date, else string; a keyword rule below its
\* threshold falls through to the generic rules.
C24_PriorityWithThresholds ==
    (fnOut.fn = "convert_series" /\ CountOf("non_empty") > 0 /\ ~AtLeast("bool", 7)) =>
        fnOut.value.type =
            IF NameHolds(DATE_HINTS) /\ AtLeast("date", 5) THEN "date"
            ELSE IF NameHolds(NUMBER_HINTS) /\ AtLeast("number", 7) THEN "number"
            ELSE IF AtLeast("number", 6) THEN "number"
            ELSE IF AtLeast("date", 5) \/ (NameHolds(DATE_HINTS) /\ CountOf("date") > 0)
            THEN "date"
            ELSE "string"

\* C25: the cleaned names of a table are pairwise distinct: the first column
\* of a normalized name keeps it, the k-th gets the suffix _k, and no suffixed
\* name is the name of another column.
C25_NamesDistinct ==
    (fnOut.fn = "clean_columns") =>
        LET cleaned == fnOut.value.columns
            normalized == [i \in DOMAIN fnIn.columns |-> normalize_column_name(fnIn.columns[i])]
            Earlier(i) == Cardinality({j \in 1..(i - 1) : normalized[j] = normalized[i]})
        IN  /\ \A i \in DOMAIN cleaned, j \in DOMAIN cleaned : cleaned[i] = cleaned[j] => i = j
            /\ \A i \in DOMAIN cleaned :
                  IF Earlier(i) = 0 THEN cleaned[i] = normalized[i]
                  ELSE /\ Len(cleaned[i]) = Len(normalized[i]) + 1
                       /\ SubSeq(cleaned[i], 1, Len(normalized[i])) = normalized[i]
                       /\ cleaned[i][Len(cleaned[i])] = (IF Earlier(i) = 1 THEN "2" ELSE "3")

\* the fields that identify an intake are the same in two receipts, or in two
\* index entries
SameIdentity(a, b, fields) == \A f \in fields : a[f] = b[f]
\* the entry of an intake in the index of its client
EntryOf(idx, client, id) == idx[client][PositionOf(idx[client], id)]

\* C26: the terminal receipt the background task writes, and its index
\* entry, carry the intake id, client id, preset id, idempotency key,
\* filename, results URL and received timestamp of the queued receipt.
C26_IdentityKept ==
    [][\A job \in jobs :
          (ProcessAsyncIntake(job) /\ job.intake_id \in DOMAIN receipts)
          => /\ SameIdentity(receipts[job.intake_id], receipts'[job.intake_id],
                             {"intake_id", "client_id", "preset_id", "idempotency_key",
                              "filename", "results_url", "received_at"})
             /\ SameIdentity(EntryOf(index, job.client_id, job.intake_id),
                             EntryOf(index', job.client_id, job.intake_id),
                             {"intake_id", "client_id", "preset_id", "idempotency_key",
                              "filename", "received_at"})]_vars

C28_SourceHasReceipt ==
    \A id \in DOMAIN sources :
        /\ id \in DOMAIN receipts
        /\ PositionOf(index[sources[id].client], id) # 0

\* C29: an intake verified with the HMAC key of the client of its path is
\* recorded under that client only: its receipt, its index entry and its
\* source directory carry the path's client, whatever client_id the body or
\* form holds.
C29_RecordedUnderSigningClient ==
    (config.require_auth /\ reqPath[1].client # NoClient)
    => \A id \in DOMAIN sources \cup DOMAIN receipts :
          /\ id \in DOMAIN sources => sources[id].client = reqPath[1].client
          /\ id \in DOMAIN receipts => receipts[id].client_id = reqPath[1].client
          /\ \A client \in StoreClients \ {reqPath[1].client} :
                PositionOf(index[client], id) = 0

=============================================================================
